---- MODULE Spec2Model ----
(***************************************************************************)
(* The outfit history engine and the session persistence of the virtual    *)
(* try-on studio (src/src/App (2).tsx), as a state machine.                *)
(*                                                                         *)
(* The React component's state hooks are the variables.  Every handler is  *)
(* one action; an asynchronous handler is two: the part up to its awaited  *)
(* gateway call (which records the values its closure captured in          *)
(* `pending`) and the continuation, run when the gateway resolves or       *)
(* rejects.  State updates of one handler run are committed together, and  *)
(* the save effect (the useEffect on recentCreations, outfitHistory,       *)
(* currentOutfitIndex, currentBackground) runs as part of the same step.   *)
(*                                                                         *)
(* Encodings: an image reference is a number (the gateway's k-th call      *)
(* returns image k); a string the code takes prefixes of (garment id and   *)
(* url) is a sequence of tokens; null is a distinguished value of the      *)
(* field's type.  Indices are 0-based as in the code.                      *)
(*                                                                         *)
(* Spec runs the handlers whenever they are called; CanvasSpec runs them   *)
(* only where the rendered controls offer them.  SaveSpec, LoadSpec,       *)
(* RoundTripSpec and DeepSpec run parts of the engine on drawn states;     *)
(* GatewaySpec is one operation of services/geminiService.ts, ManifestSpec *)
(* one run of getDisplayMode of tests/manifest.test.ts.                    *)
(***************************************************************************)
EXTENDS Integers, Sequences, FiniteSets, TLC

\* ------------------------------------------------------------------ bounds
\* gateway calls issued in one run
MaxCalls == 2
\* model finalizations in one run
MaxModels == 1
\* the user picks poses 0..MaxPoseInput of the catalog
MaxPoseInput == 1
\* the storage quota, in image references per record: ample
LargeQuota == 50
\* the longest creation log the save effect is run on by itself
MaxSaveLog == 6
\* the largest of the small quotas the save effect is run on by itself
MaxSaveQuota == 6

\* --------------------------------------------------------------- constants
POSE_INSTRUCTIONS ==
  << "Full frontal view, hands on hips",
     "Slightly turned, 3/4 view",
     "Looking over the shoulder",
     "Side profile view",
     "Walking towards camera",
     "Close-up upper body, focused on outfit",
     "Leaning against a wall",
     "Sitting on a sofa or couch",
     "Dynamic action pose, mid-stride",
     "Full backside view" >>

STUDIO_PROMPT ==
  "an elegant, high-end studio setting featuring a white fluted column, soft sheer white fabric drapes, and a floral arrangement with white and peach flowers on a pedestal, with a clean white floor"

\* addRecentCreation keeps the newest 12
MaxCreations == 12

\* modelImageUrl = null, and the undefined of a missing pose image
NoImage == 0

\* garment: null
NullGarment == [id |-> <<>>, name |-> "", url |-> <<>>]

\* lastAction = null
NullAction ==
  [type |-> "none", garmentInfo |-> NullGarment, poseInstruction |-> "",
   prompt |-> <<>>, baseImage |-> NoImage]

\* error = null
NoError == ""

\* ------------------------------------------------------------------ inputs
\* a catalog garment and a user-uploaded one (reserved id prefix, blob url)
CatalogGarment ==
  [id |-> <<"g1">>, name |-> "Red Dress", url |-> <<"https:", "g1.png">>]
CustomGarment ==
  [id |-> <<"custom-", "1">>, name |-> "My Shirt", url |-> <<"blob:", "1">>]
GarmentInputs == {CatalogGarment, CustomGarment}

\* the wardrobe module's catalog
defaultWardrobe == <<CatalogGarment>>

\* the image the start screen hands to handleModelFinalized
ModelUrlInputs == {100}
EditPromptInputs == {"make it brighter"}
BackgroundPromptInputs == {"a stylish urban city street background, slightly blurred"}
PoseInputs == 0..MaxPoseInput
QuotaInputs == {LargeQuota}

\* ----------------------------------------------------------------- helpers
StartsWith(s, prefix) == Len(s) > 0 /\ s[1] = prefix

Min(a, b) == IF a < b THEN a ELSE b

\* Array.prototype.slice(from, to), 0-based, to exclusive
Slice(s, from, to) == SubSeq(s, from + 1, Min(to, Len(s)))

\* history[i] is defined
HasLayer(h, i) == i >= 0 /\ i < Len(h)

\* poseImages is an insertion-ordered mapping: a sequence of entries
PoseHas(pi, label) == \E k \in 1..Len(pi) : pi[k].label = label

PoseGet(pi, label) ==
  IF PoseHas(pi, label)
  THEN (pi[CHOOSE k \in 1..Len(pi) : pi[k].label = label]).url
  ELSE NoImage

\* { ...pi, [label]: url }: an existing key keeps its place, a new one is last
PoseSet(pi, label, url) ==
  IF PoseHas(pi, label)
  THEN [k \in 1..Len(pi) |->
          IF pi[k].label = label THEN [label |-> label, url |-> url] ELSE pi[k]]
  ELSE Append(pi, [label |-> label, url |-> url])

\* Object.values(pi)[0]
FirstValue(pi) == IF Len(pi) > 0 THEN pi[1].url ELSE NoImage

RECURSIVE SumPoseImages(_)
SumPoseImages(h) ==
  IF h = <<>> THEN 0 ELSE Len(Head(h).poseImages) + SumPoseImages(Tail(h))

\* ------------------------------------------------------------------- state
VARIABLES
  modelImageUrl,       \* useState<string | null>(null)
  outfitHistory,       \* useState<OutfitLayer[]>([])
  currentOutfitIndex,  \* useState(0)
  isLoading,           \* useState(false)
  error,               \* useState<string | null>(null)
  currentPoseIndex,    \* useState(0)
  wardrobe,            \* useState<WardrobeItem[]>(defaultWardrobe)
  hasSavedOutfit,      \* useState(false), set by the startup effect
  recentCreations,     \* useState<CreationItem[]>([])
  lastAction,          \* useState<LastAction | null>(null)
  currentBackground,   \* useState<string>('')
  storage,             \* localStorage's record under SAVED_OUTFIT_KEY
  quota,               \* what localStorage.setItem accepts before it throws
  pending,             \* the gateway calls awaited, each with its closure
  calls,               \* gateway calls issued so far
  models,              \* models finalized so far
  crashed,             \* a state updater threw while rendering: the tree is gone
  sinceReset,          \* history: reset happened and no base layer since
  lastOp,              \* history: the handler run of the last step
  request,             \* geminiService: the operation's inputs
  response,            \* geminiService: what ai.models.generateContent gave
  canvas,              \* geminiService: the browser addWatermark draws with
  returned,            \* geminiService: how the operation's promise settled
  manifest,            \* manifest.test: the WebAppManifest under test
  supportedModes,      \* manifest.test: the modes the simulated browser supports
  displayMode          \* manifest.test: what getDisplayMode returned

\* the state of the App component
engineVars ==
  <<modelImageUrl, outfitHistory, currentOutfitIndex, isLoading, error,
    currentPoseIndex, wardrobe, hasSavedOutfit, recentCreations, lastAction,
    currentBackground, storage, quota, pending, calls, models, crashed,
    sinceReset, lastOp>>

\* the state of one gateway operation of geminiService
serviceVars == <<request, response, canvas, returned>>

\* the state of one run of the manifest helper
manifestVars == <<manifest, supportedModes, displayMode>>

vars == <<engineVars, serviceVars, manifestVars>>

\* a data URL: the image it encodes, and whether the mark is drawn on it
DataUrl(image, marked) == [image |-> image, watermark |-> marked]

\* no gateway operation has been started
ServiceIdle ==
  /\ request = [readable |-> TRUE]
  /\ response = [failed |-> FALSE, blockReason |-> "", candidates |-> <<>>,
                 text |-> ""]
  /\ canvas = [loads |-> TRUE, context |-> TRUE]
  /\ returned = [operation |-> "", status |-> "none",
                 url |-> DataUrl(NoImage, FALSE), message |-> ""]

\* the manifest helper has not been run
ManifestIdle ==
  /\ manifest = [display |-> "", hasOverride |-> FALSE,
                 display_override |-> <<>>]
  /\ supportedModes = {}
  /\ displayMode = ""

\* ------------------------------------------------------------- persistence
\* localStorage.getItem(SAVED_OUTFIT_KEY) === null
AbsentRecord ==
  [present |-> FALSE, parsable |-> FALSE, hasHistory |-> FALSE,
   outfitHistory |-> <<>>, hasIndex |-> FALSE, currentOutfitIndex |-> 0,
   hasCreations |-> FALSE, recentCreations |-> <<>>, hasLegacy |-> FALSE,
   recentImages |-> <<>>, currentBackground |-> ""]

\* mutant: the record is written without the index
SessionRecordWithoutIndex(history, index, creations, background) ==
  [present |-> TRUE, parsable |-> TRUE, hasHistory |-> TRUE,
   outfitHistory |-> history, hasIndex |-> FALSE, currentOutfitIndex |-> 0,
   hasCreations |-> TRUE, recentCreations |-> creations, hasLegacy |-> FALSE,
   recentImages |-> <<>>, currentBackground |-> background]

\* JSON.stringify(data) of the save effect, as what JSON.parse gives back
SessionRecord(history, index, creations, background) ==
  [present |-> TRUE, parsable |-> TRUE, hasHistory |-> TRUE,
   outfitHistory |-> history, hasIndex |-> TRUE, currentOutfitIndex |-> index,
   hasCreations |-> TRUE, recentCreations |-> creations, hasLegacy |-> FALSE,
   recentImages |-> <<>>, currentBackground |-> background]

\* the record's size, in image references (the data URLs are its bulk)
RecordSize(history, creations) == SumPoseImages(history) + Len(creations)

\* recentCreations.filter(item => item.type === 'image')
RECURSIVE ImagesOnly(_)
ImagesOnly(c) ==
  IF c = <<>> THEN <<>>
  ELSE IF Head(c).type = "image" THEN <<Head(c)>> \o ImagesOnly(Tail(c))
       ELSE ImagesOnly(Tail(c))

\* mutant: every layer is stored as it is
UnsafeLayer(layer) == layer

\* a layer whose garment url is a blob: reference is stored with garment null
SafeLayer(layer) ==
  IF layer.garment # NullGarment /\ StartsWith(layer.garment.url, "blob:")
  THEN [layer EXCEPT !.garment = NullGarment]
  ELSE layer

SafeOutfitHistory(history) == [k \in 1..Len(history) |-> SafeLayer(history[k])]

\* trySave(creations): localStorage.setItem throws above the quota
TrySave(history, creations, q) == RecordSize(history, creations) <= q

\* mutant: the step of the newest 5 is missing
SaveCandidatesWithoutFive(creations) ==
  << creations, Slice(creations, 0, 1), Slice(creations, 0, 1), <<>> >>

\* the fallback cascade: all, the newest 5, the newest 1, none
SaveCandidates(creations) ==
  << creations, Slice(creations, 0, 5), Slice(creations, 0, 1), <<>> >>

SaveAccepted(history, creations, q) ==
  {k \in 1..4 : TrySave(history, SaveCandidates(creations)[k], q)}

\* mutant: the effect does not return early on an empty session
SavedRecordAlways(history, index, creations, background, q, old) ==
  LET safe == SafeOutfitHistory(history)
      imgs == ImagesOnly(creations)
      ok   == SaveAccepted(safe, imgs, q)
      pick == CHOOSE k \in ok : \A j \in ok : k <= j
  IN IF ok = {} THEN old
     ELSE SessionRecord(safe, index, SaveCandidates(imgs)[pick], background)

\* the record under the key after the save effect ran on a committed state
SavedRecord(history, index, creations, background, q, old) ==
  LET safe == SafeOutfitHistory(history)
      imgs == ImagesOnly(creations)
      ok   == SaveAccepted(safe, imgs, q)
      pick == CHOOSE k \in ok : \A j \in ok : k <= j
  IN IF Len(imgs) = 0 /\ Len(safe) = 0 THEN old
     ELSE IF ok = {} THEN old
     ELSE SessionRecord(safe, index, SaveCandidates(imgs)[pick], background)

\* mutant: a save that succeeded leaves the resume flag as it was
SavedFlagKept(history, creations, q, old) == old

\* setHasSavedOutfit(true) of a trySave that succeeded
SavedFlag(history, creations, q, old) ==
  LET safe == SafeOutfitHistory(history)
      imgs == ImagesOnly(creations)
  IN IF Len(imgs) = 0 /\ Len(safe) = 0 THEN old
     ELSE IF SaveAccepted(safe, imgs, q) = {} THEN old
     ELSE TRUE

\* The save effect after a handler's updates were committed.  `rec` and `flag`
\* are the record and the resume flag as the handler itself left them; the
\* effect runs when one of its dependencies changed (`fresh`: the handler set
\* a new array although its content may be the same).
SaveEffect(rec, flag, fresh) ==
  IF fresh \/ recentCreations' # recentCreations
           \/ outfitHistory' # outfitHistory
           \/ currentOutfitIndex' # currentOutfitIndex
           \/ currentBackground' # currentBackground
  THEN /\ storage' = SavedRecord(outfitHistory', currentOutfitIndex',
                                 recentCreations', currentBackground', quota, rec)
       /\ hasSavedOutfit' = SavedFlag(outfitHistory', recentCreations', quota, flag)
  ELSE /\ storage' = rec
       /\ hasSavedOutfit' = flag

\* ----------------------------------------------------------------- derived
\* the displayImageUrl memo
DisplayImageUrl(model, history, index, pose) ==
  IF Len(history) = 0 THEN model
  ELSE IF ~HasLayer(history, index) THEN model
  ELSE LET layer == history[index + 1]
           label == POSE_INSTRUCTIONS[pose + 1]
       IN IF PoseHas(layer.poseImages, label)
          THEN PoseGet(layer.poseImages, label)
          ELSE FirstValue(layer.poseImages)

displayImageUrl ==
  DisplayImageUrl(modelImageUrl, outfitHistory, currentOutfitIndex, currentPoseIndex)

\* mutant: the log is not cut
AddRecentCreationUncut(prev, url, type) ==
  <<[id |-> <<"now">>, url |-> url, type |-> type]>> \o prev

\* prev => [{ id: Date.now().toString(), url, type }, ...prev].slice(0, 12)
AddRecentCreation(prev, url, type) ==
  Slice(<<[id |-> <<"now">>, url |-> url, type |-> type]>> \o prev, 0, MaxCreations)

\* ------------------------------------------------------------ history marks
\* the engine state a handler run started from
Snapshot ==
  [hist |-> outfitHistory, idx |-> currentOutfitIndex, pose |-> currentPoseIndex,
   lastAction |-> lastAction, creations |-> recentCreations,
   wardrobe |-> wardrobe, bg |-> currentBackground, loading |-> isLoading,
   error |-> error, model |-> modelImageUrl, calls |-> calls,
   stored |-> storage, flag |-> hasSavedOutfit, waiting |-> pending]

NoSnap ==
  [hist |-> <<>>, idx |-> 0, pose |-> 0, lastAction |-> NullAction,
   creations |-> <<>>, wardrobe |-> <<>>, bg |-> "", loading |-> FALSE,
   error |-> NoError, model |-> NoImage, calls |-> 0,
   stored |-> AbsentRecord, flag |-> FALSE, waiting |-> {}]

\* no gateway call
NoCall ==
  [id |-> 0, kind |-> "", idx |-> 0, pose |-> 0, target |-> 0,
   garmentInfo |-> NullGarment, poseKey |-> "", rawPrompt |-> "",
   action |-> NullAction, base |-> NoImage, background |-> ""]

\* The mark a step leaves: the handler that ran, how it ended, its input
\* (arg: a pose index, garment: a garment), the call it issued or continued,
\* and `from`, the engine state it started from.  `paired` says that the
\* step before was this step's counterpart (the handler run that issued the
\* call this step continues; the undo this redo follows), and `before` is
\* then the state that counterpart started from.
Op(name, result) ==
  [name |-> name, result |-> result, arg |-> 0, garment |-> NullGarment,
   call |-> NoCall, from |-> NoSnap, paired |-> FALSE, before |-> NoSnap]

\* --------------------------------------------------------------------- Init
\* a record an earlier session left under the key: two layers, the garment
\* layer with two poses, and a creation log one short of its cap
EarlierSession ==
  SessionRecord(
    << [garment |-> NullGarment,
        poseImages |-> <<[label |-> POSE_INSTRUCTIONS[1], url |-> 100]>>],
       [garment |-> CatalogGarment,
        poseImages |-> <<[label |-> POSE_INSTRUCTIONS[1], url |-> 101],
                         [label |-> POSE_INSTRUCTIONS[2], url |-> 102]>>] >>,
    1,
    [k \in 1..(MaxCreations - 1) |->
       [id |-> <<"now">>,
        url |-> IF k = 1 THEN 102 ELSE IF k = 2 THEN 101 ELSE 110 + k,
        type |-> "image"]],
    STUDIO_PROMPT)

StoredInputs == {AbsentRecord, EarlierSession}

Init ==
  /\ modelImageUrl = NoImage
  /\ outfitHistory = <<>>
  /\ currentOutfitIndex = 0
  /\ isLoading = FALSE
  /\ error = NoError
  /\ currentPoseIndex = 0
  /\ wardrobe = defaultWardrobe
  /\ recentCreations = <<>>
  /\ lastAction = NullAction
  /\ currentBackground = ""
  /\ storage \in StoredInputs
  /\ hasSavedOutfit = storage.present
  /\ quota \in QuotaInputs
  /\ pending = {}
  /\ calls = 0
  /\ models = 0
  /\ crashed = FALSE
  /\ sinceReset = FALSE
  /\ lastOp = Op("mount", "ok")
  /\ ServiceIdle
  /\ ManifestIdle

\* the App is mounted and untouched, with nothing under the session key
EngineIdle ==
  /\ modelImageUrl = NoImage
  /\ outfitHistory = <<>>
  /\ currentOutfitIndex = 0
  /\ isLoading = FALSE
  /\ error = NoError
  /\ currentPoseIndex = 0
  /\ wardrobe = defaultWardrobe
  /\ hasSavedOutfit = FALSE
  /\ recentCreations = <<>>
  /\ lastAction = NullAction
  /\ currentBackground = ""
  /\ storage = AbsentRecord
  /\ quota = LargeQuota
  /\ pending = {}
  /\ calls = 0
  /\ models = 0
  /\ crashed = FALSE
  /\ sinceReset = FALSE
  /\ lastOp = Op("mount", "ok")

\* ------------------------------------------------------------------ actions
handleModelFinalized(url) ==
  /\ ~crashed
  /\ UNCHANGED <<serviceVars, manifestVars>>
  /\ models < MaxModels
  /\ modelImageUrl' = url
  /\ outfitHistory' =
       <<[garment |-> NullGarment,
          poseImages |-> <<[label |-> POSE_INSTRUCTIONS[1], url |-> url]>>]>>
  /\ currentOutfitIndex' = 0
  /\ currentBackground' = STUDIO_PROMPT
  /\ recentCreations' = AddRecentCreation(recentCreations, url, "image")
  /\ SaveEffect(storage, hasSavedOutfit, TRUE)
  /\ models' = models + 1
  /\ sinceReset' = FALSE
  /\ lastOp' = [Op("handleModelFinalized", "ok") EXCEPT
                  !.from = [NoSnap EXCEPT !.creations = recentCreations]]
  /\ UNCHANGED <<isLoading, error, currentPoseIndex, wardrobe, lastAction,
                 quota, pending, calls, crashed>>

handleConfirmStartOver ==
  /\ ~crashed
  /\ UNCHANGED <<serviceVars, manifestVars>>
  /\ modelImageUrl' = NoImage
  /\ outfitHistory' = <<>>
  /\ currentOutfitIndex' = 0
  /\ isLoading' = FALSE
  /\ error' = NoError
  /\ currentPoseIndex' = 0
  /\ wardrobe' = defaultWardrobe
  /\ recentCreations' = <<>>
  /\ lastAction' = NullAction
  /\ currentBackground' = ""
  /\ SaveEffect(AbsentRecord, FALSE, TRUE)
  /\ sinceReset' = TRUE
  /\ lastOp' = Op("handleConfirmStartOver", "ok")
  /\ UNCHANGED <<quota, pending, calls, models, crashed>>

\* what an asynchronous handler's closure holds while its gateway call is awaited
Call(kind, base) ==
  [id |-> calls + 1, kind |-> kind, idx |-> currentOutfitIndex,
   pose |-> currentPoseIndex, target |-> currentPoseIndex,
   garmentInfo |-> NullGarment, poseKey |-> "", rawPrompt |-> "",
   action |-> NullAction, base |-> base, background |-> currentBackground]

Issued(name, p) ==
  [Op(name, "issued") EXCEPT !.call = p, !.from = Snapshot,
                             !.garment = p.garmentInfo, !.arg = p.target]

Done(name, result, p) ==
  LET paired == lastOp.result = "issued" /\ lastOp.call = p
  IN [Op(name, result) EXCEPT
        !.call = p, !.garment = p.garmentInfo, !.arg = p.target,
        !.from = Snapshot, !.paired = paired,
        !.before = IF paired THEN lastOp.from ELSE NoSnap]

Issue(p) ==
  /\ calls < MaxCalls
  /\ p.id = calls + 1
  /\ pending' = pending \cup {p}
  /\ calls' = calls + 1

\* a handler run that returned early, or threw before any update
NoOp(name, result, arg, garment) ==
  /\ lastOp' = [Op(name, result) EXCEPT !.arg = arg, !.garment = garment,
                                        !.from = Snapshot]
  /\ UNCHANGED <<modelImageUrl, outfitHistory, currentOutfitIndex, isLoading,
                 error, currentPoseIndex, wardrobe, hasSavedOutfit,
                 recentCreations, lastAction, currentBackground, storage, quota,
                 pending, calls, models, crashed, sinceReset>>

TryOnAction(garmentInfo) ==
  [NullAction EXCEPT !.type = "try-on", !.garmentInfo = garmentInfo]

\* mutant: the active layer is compared instead of the one ahead
ActiveLayerIsGarment(history, index, garmentInfo) ==
  /\ HasLayer(history, index)
  /\ history[index + 1].garment # NullGarment
  /\ history[index + 1].garment.id = garmentInfo.id

\* nextLayer && nextLayer.garment?.id === garmentInfo.id
NextLayerIsGarment(history, index, garmentInfo) ==
  /\ HasLayer(history, index + 1)
  /\ history[index + 2].garment # NullGarment
  /\ history[index + 2].garment.id = garmentInfo.id

handleGarmentSelect(garmentInfo) ==
  /\ ~crashed
  /\ UNCHANGED <<serviceVars, manifestVars>>
  /\ IF displayImageUrl = NoImage \/ isLoading
     THEN NoOp("handleGarmentSelect", "noop", 0, garmentInfo)
     ELSE IF NextLayerIsGarment(outfitHistory, currentOutfitIndex, garmentInfo)
     THEN /\ currentOutfitIndex' = currentOutfitIndex + 1
          /\ currentPoseIndex' = 0
          /\ lastOp' = [Op("handleGarmentSelect", "fast") EXCEPT
                          !.from = Snapshot, !.garment = garmentInfo]
          /\ UNCHANGED <<modelImageUrl, outfitHistory, isLoading, error,
                         wardrobe, recentCreations, lastAction,
                         currentBackground, quota, pending, calls, models,
                         crashed, sinceReset>>
          /\ SaveEffect(storage, hasSavedOutfit, FALSE)
     ELSE /\ error' = NoError
          /\ isLoading' = TRUE
          /\ lastAction' = TryOnAction(garmentInfo)
          /\ LET p == [Call("try-on", displayImageUrl)
                         EXCEPT !.garmentInfo = garmentInfo]
             IN /\ Issue(p)
                /\ lastOp' = Issued("handleGarmentSelect", p)
          /\ UNCHANGED <<modelImageUrl, outfitHistory, currentOutfitIndex,
                         currentPoseIndex, wardrobe, hasSavedOutfit,
                         recentCreations, currentBackground, storage, quota,
                         models, crashed, sinceReset>>

\* setWardrobe(prev => prev.find(item => item.id === garmentInfo.id) ? prev : [...prev, garmentInfo])
AddToWardrobe(prev, garmentInfo) ==
  IF \E k \in 1..Len(prev) : prev[k].id = garmentInfo.id
  THEN prev
  ELSE Append(prev, garmentInfo)

\* mutant: the layer ahead is replaced and the layers after it are kept
ReplaceNextLayer(prevHistory, index, newLayer) ==
  Slice(prevHistory, 0, index + 1) \o <<newLayer>>
    \o Slice(prevHistory, index + 2, Len(prevHistory))

\* mutant: the redo-reachable tail is kept
AppendLayerKeepingTail(prevHistory, index, newLayer) ==
  prevHistory \o <<newLayer>>

\* setOutfitHistory(prevHistory => [...prevHistory.slice(0, currentOutfitIndex + 1), newLayer])
AppendLayer(prevHistory, index, newLayer) ==
  Slice(prevHistory, 0, index + 1) \o <<newLayer>>

GarmentResolved(p) ==
  /\ recentCreations' = AddRecentCreation(recentCreations, p.id, "image")
  /\ outfitHistory' =
       AppendLayer(outfitHistory, p.idx,
                   [garment |-> p.garmentInfo,
                    poseImages |-> <<[label |-> POSE_INSTRUCTIONS[p.pose + 1],
                                      url |-> p.id]>>])
  /\ currentOutfitIndex' = currentOutfitIndex + 1
  /\ currentPoseIndex' = 0
  /\ wardrobe' = AddToWardrobe(wardrobe, p.garmentInfo)
  /\ isLoading' = FALSE
  /\ UNCHANGED <<modelImageUrl, error, lastAction, currentBackground, crashed>>

\* the catch and finally blocks of a handler whose gateway call rejected
Rejected(context) ==
  /\ error' = context
  /\ isLoading' = FALSE
  /\ UNCHANGED <<modelImageUrl, outfitHistory, currentOutfitIndex, wardrobe,
                 recentCreations, lastAction, currentBackground, crashed>>

\* handleUndo's guard, and canUndo
CanUndo(history, index) == index > 0

\* mutant: redo is allowed at the last layer
CanRedoAtTip(history, index) == index < Len(history)

\* handleRedo's guard, and canRedo
CanRedo(history, index) == index < Len(history) - 1

\* prevIndex => prevIndex - 1
UndoTarget(history, prevIndex) == prevIndex - 1

\* mutant: redo jumps to the newest layer
RedoToNewest(history, prevIndex) == Len(history) - 1

\* prevIndex => prevIndex + 1
RedoTarget(history, prevIndex) == prevIndex + 1

handleUndo ==
  /\ ~crashed
  /\ UNCHANGED <<serviceVars, manifestVars>>
  /\ IF CanUndo(outfitHistory, currentOutfitIndex)
     THEN /\ currentOutfitIndex' = UndoTarget(outfitHistory, currentOutfitIndex)
          /\ currentPoseIndex' = 0
          /\ lastOp' = [Op("handleUndo", "moved") EXCEPT !.from = Snapshot]
          /\ UNCHANGED <<modelImageUrl, outfitHistory, isLoading, error,
                         wardrobe, recentCreations, lastAction,
                         currentBackground, quota, pending, calls, models,
                         crashed, sinceReset>>
          /\ SaveEffect(storage, hasSavedOutfit, FALSE)
     ELSE NoOp("handleUndo", "noop", 0, NullGarment)

\* the mark of a redo: paired when the step before was an undo that moved
AfterUndo(op) ==
  LET paired == lastOp.name = "handleUndo" /\ lastOp.result = "moved"
  IN [op EXCEPT !.from = Snapshot, !.paired = paired,
                !.before = IF paired THEN lastOp.from ELSE NoSnap]

handleRedo ==
  /\ ~crashed
  /\ UNCHANGED <<serviceVars, manifestVars>>
  /\ IF CanRedo(outfitHistory, currentOutfitIndex)
     THEN /\ currentOutfitIndex' = RedoTarget(outfitHistory, currentOutfitIndex)
          /\ currentPoseIndex' = 0
          /\ lastOp' = AfterUndo(Op("handleRedo", "moved"))
          /\ UNCHANGED <<modelImageUrl, outfitHistory, isLoading, error,
                         wardrobe, recentCreations, lastAction,
                         currentBackground, quota, pending, calls, models,
                         crashed, sinceReset>>
          /\ SaveEffect(storage, hasSavedOutfit, FALSE)
     ELSE /\ lastOp' = AfterUndo(Op("handleRedo", "noop"))
          /\ UNCHANGED <<modelImageUrl, outfitHistory, currentOutfitIndex,
                         isLoading, error, currentPoseIndex, wardrobe,
                         hasSavedOutfit, recentCreations, lastAction,
                         currentBackground, storage, quota, pending, calls,
                         models, crashed, sinceReset>>

PoseAction(poseInstruction, baseImage) ==
  [NullAction EXCEPT !.type = "pose", !.poseInstruction = poseInstruction,
                     !.baseImage = baseImage]

\* mutant: the in-flight guard is missing
PoseSelectIgnoredUnguarded(loading, history, pose, newIndex) ==
  Len(history) = 0 \/ newIndex = pose

\* isLoading || outfitHistory.length === 0 || newIndex === currentPoseIndex
PoseSelectIgnored(loading, history, pose, newIndex) ==
  loading \/ Len(history) = 0 \/ newIndex = pose

handlePoseSelect(newIndex) ==
  /\ ~crashed
  /\ UNCHANGED <<serviceVars, manifestVars>>
  /\ IF PoseSelectIgnored(isLoading, outfitHistory, currentPoseIndex, newIndex)
     THEN NoOp("handlePoseSelect", "noop", newIndex, NullGarment)
     ELSE IF ~HasLayer(outfitHistory, currentOutfitIndex)
     THEN \* currentLayer is undefined: reading its poseImages throws
          NoOp("handlePoseSelect", "threw", newIndex, NullGarment)
     ELSE LET poseInstruction == POSE_INSTRUCTIONS[newIndex + 1]
              currentLayer == outfitHistory[currentOutfitIndex + 1]
              baseImageForPoseChange == FirstValue(currentLayer.poseImages)
          IN IF PoseHas(currentLayer.poseImages, poseInstruction)
             THEN /\ currentPoseIndex' = newIndex
                  /\ lastOp' = [Op("handlePoseSelect", "cached") EXCEPT !.arg = newIndex, !.from = Snapshot]
                  /\ UNCHANGED <<modelImageUrl, outfitHistory, currentOutfitIndex,
                                 isLoading, error, wardrobe, hasSavedOutfit,
                                 recentCreations, lastAction, currentBackground,
                                 storage, quota, pending, calls, models, crashed,
                                 sinceReset>>
             ELSE IF baseImageForPoseChange = NoImage
             THEN NoOp("handlePoseSelect", "nobase", newIndex, NullGarment)
             ELSE /\ error' = NoError
                  /\ isLoading' = TRUE
                  /\ lastAction' = PoseAction(poseInstruction, baseImageForPoseChange)
                  /\ currentPoseIndex' = newIndex
                  /\ LET p == [Call("pose", baseImageForPoseChange)
                                 EXCEPT !.target = newIndex,
                                        !.poseKey = poseInstruction]
                     IN /\ Issue(p)
                        /\ lastOp' = Issued("handlePoseSelect", p)
                  /\ UNCHANGED <<modelImageUrl, outfitHistory, currentOutfitIndex,
                                 wardrobe, hasSavedOutfit, recentCreations,
                                 currentBackground, storage, quota, models,
                                 crashed, sinceReset>>

\* mutant: the layer keeps the new pose only
MergePoseReplacing(prevHistory, index, key, url) ==
  [prevHistory EXCEPT ![index + 1].poseImages = <<[label |-> key, url |-> url]>>]

\* newHistory[index] = { ...layerToUpdate, poseImages: { ...layerToUpdate.poseImages, [key]: url } }
MergePose(prevHistory, index, key, url) ==
  [prevHistory EXCEPT ![index + 1].poseImages = PoseSet(@, key, url)]

PoseResolved(p) ==
  /\ recentCreations' = AddRecentCreation(recentCreations, p.id, "image")
  /\ outfitHistory' = MergePose(outfitHistory, p.idx, p.poseKey, p.id)
  /\ isLoading' = FALSE
  /\ UNCHANGED <<modelImageUrl, currentOutfitIndex, currentPoseIndex, error,
                 wardrobe, lastAction, currentBackground, crashed>>

\* mutant: the optimistic pose index is kept
KeepTargetPose(prevPoseIndex, newIndex) == newIndex

\* setCurrentPoseIndex(prevPoseIndex) of the catch block
RevertPose(prevPoseIndex, newIndex) == prevPoseIndex

PoseRejected(p) ==
  /\ error' = "Failed to change pose"
  /\ currentPoseIndex' = RevertPose(p.pose, p.target)
  /\ isLoading' = FALSE
  /\ UNCHANGED <<modelImageUrl, outfitHistory, currentOutfitIndex, wardrobe,
                 recentCreations, lastAction, currentBackground, crashed>>

EditAction(prompt, baseImage) ==
  [NullAction EXCEPT !.type = "edit", !.prompt = prompt, !.baseImage = baseImage]

\* `Change the background to ${prompt}. The subject should be perfectly preserved.`
FullPrompt(prompt) ==
  <<"Change the background to ", prompt, ". The subject should be perfectly preserved.">>

handleImageEdit(prompt) ==
  /\ ~crashed
  /\ UNCHANGED <<serviceVars, manifestVars>>
  /\ IF displayImageUrl = NoImage \/ isLoading
     THEN NoOp("handleImageEdit", "noop", 0, NullGarment)
     ELSE /\ error' = NoError
          /\ isLoading' = TRUE
          /\ lastAction' = EditAction(<<prompt>>, displayImageUrl)
          /\ Issue(Call("edit", displayImageUrl))
          /\ lastOp' = Issued("handleImageEdit", Call("edit", displayImageUrl))
          /\ UNCHANGED <<modelImageUrl, outfitHistory, currentOutfitIndex,
                         currentPoseIndex, wardrobe, hasSavedOutfit,
                         recentCreations, currentBackground, storage, quota,
                         models, crashed, sinceReset>>

handleBackgroundChange(prompt) ==
  /\ ~crashed
  /\ UNCHANGED <<serviceVars, manifestVars>>
  /\ IF displayImageUrl = NoImage \/ isLoading
     THEN NoOp("handleBackgroundChange", "noop", 0, NullGarment)
     ELSE /\ error' = NoError
          /\ isLoading' = TRUE
          /\ lastAction' = EditAction(FullPrompt(prompt), displayImageUrl)
          /\ LET p == [Call("background", displayImageUrl) EXCEPT !.rawPrompt = prompt]
             IN /\ Issue(p)
                /\ lastOp' = Issued("handleBackgroundChange", p)
          /\ UNCHANGED <<modelImageUrl, outfitHistory, currentOutfitIndex,
                         currentPoseIndex, wardrobe, hasSavedOutfit,
                         recentCreations, currentBackground, storage, quota,
                         models, crashed, sinceReset>>

\* mutant: the new layer holds the edited image only, with no garment
AppendEditedBare(prevHistory, index, pose, url) ==
  IF ~HasLayer(prevHistory, index) THEN prevHistory
  ELSE Slice(prevHistory, 0, index + 1)
         \o <<[garment |-> NullGarment,
               poseImages |-> <<[label |-> POSE_INSTRUCTIONS[pose + 1], url |-> url]>>]>>

\* the setOutfitHistory updater of handleImageEdit and handleBackgroundChange
AppendEdited(prevHistory, index, pose, url) ==
  IF ~HasLayer(prevHistory, index) THEN prevHistory
  ELSE LET currentLayer == prevHistory[index + 1]
       IN AppendLayer(prevHistory, index,
            [garment |-> currentLayer.garment,
             poseImages |-> PoseSet(currentLayer.poseImages,
                                    POSE_INSTRUCTIONS[pose + 1], url)])

\* mutant: the wrapped prompt becomes the background context
BackgroundWrapped(kind, rawPrompt, background) ==
  IF kind = "background" THEN "Change the background to ..." ELSE background

\* setCurrentBackground(prompt), which only handleBackgroundChange calls
BackgroundAfterEdit(kind, rawPrompt, background) ==
  IF kind = "background" THEN rawPrompt ELSE background

EditResolved(p) ==
  /\ recentCreations' = AddRecentCreation(recentCreations, p.id, "image")
  /\ outfitHistory' = AppendEdited(outfitHistory, p.idx, p.pose, p.id)
  /\ currentOutfitIndex' = currentOutfitIndex + 1
  /\ currentBackground' = BackgroundAfterEdit(p.kind, p.rawPrompt, currentBackground)
  /\ isLoading' = FALSE
  /\ UNCHANGED <<modelImageUrl, currentPoseIndex, error, wardrobe, lastAction,
                 crashed>>

\* the image handleRegenerate sends to the gateway
RegenerateBase(action, previousLayer) ==
  IF action.type = "try-on" THEN FirstValue(previousLayer.poseImages)
  ELSE action.baseImage

\* mutant: the result always goes under the pose shown
RegenerateCurrentPoseKey(action, pose) == POSE_INSTRUCTIONS[pose + 1]

\* the pose label handleRegenerate writes the result under
RegeneratePoseKey(action, pose) ==
  IF action.type = "pose" THEN action.poseInstruction
  ELSE POSE_INSTRUCTIONS[pose + 1]

\* mutant: the base layer is not excluded
RegenerateIgnoredButAtBase(action, loading, index) ==
  action = NullAction \/ loading

\* !lastAction || isLoading || currentOutfitIndex === 0
RegenerateIgnored(action, loading, index) ==
  action = NullAction \/ loading \/ index = 0

handleRegenerate ==
  /\ ~crashed
  /\ UNCHANGED <<serviceVars, manifestVars>>
  /\ IF RegenerateIgnored(lastAction, isLoading, currentOutfitIndex)
     THEN NoOp("handleRegenerate", "noop", 0, NullGarment)
     ELSE IF ~HasLayer(outfitHistory, currentOutfitIndex - 1)
     THEN \* "Previous layer not found", thrown and caught before any call
          /\ error' = "Failed to regenerate"
          /\ isLoading' = FALSE
          /\ lastOp' = [Op("handleRegenerate", "failed") EXCEPT !.from = Snapshot]
          /\ UNCHANGED <<modelImageUrl, outfitHistory, currentOutfitIndex,
                         currentPoseIndex, wardrobe, hasSavedOutfit,
                         recentCreations, lastAction, currentBackground,
                         storage, quota, pending, calls, models, crashed,
                         sinceReset>>
     ELSE /\ error' = NoError
          /\ isLoading' = TRUE
          /\ LET p == [Call("regenerate",
                             RegenerateBase(lastAction, outfitHistory[currentOutfitIndex]))
                         EXCEPT !.action = lastAction,
                                !.poseKey = RegeneratePoseKey(lastAction, currentPoseIndex)]
             IN /\ Issue(p)
                /\ lastOp' = Issued("handleRegenerate", p)
          /\ UNCHANGED <<modelImageUrl, outfitHistory, currentOutfitIndex,
                         currentPoseIndex, wardrobe, hasSavedOutfit,
                         recentCreations, lastAction, currentBackground,
                         storage, quota, models, crashed, sinceReset>>

\* mutant: a regenerated try-on keeps the layer's other poses
RegeneratedMerging(prevHistory, index, action, key, url) ==
  MergePose(prevHistory, index, key, url)

\* mutant: the newest layer is updated, not the one the closure captured
RegeneratedAtNewest(prevHistory, index, action, key, url) ==
  IF action.type = "try-on"
  THEN [prevHistory EXCEPT ![Len(prevHistory)].poseImages = <<[label |-> key, url |-> url]>>]
  ELSE MergePose(prevHistory, Len(prevHistory) - 1, key, url)

\* mutant: a regenerated try-on clears the layer's poses
RegeneratedClearing(prevHistory, index, action, key, url) ==
  IF action.type = "try-on"
  THEN [prevHistory EXCEPT ![index + 1].poseImages = <<>>]
  ELSE MergePose(prevHistory, index, key, url)

\* the setOutfitHistory updater of handleRegenerate
Regenerated(prevHistory, index, action, key, url) ==
  IF action.type = "try-on"
  THEN [prevHistory EXCEPT ![index + 1].poseImages = <<[label |-> key, url |-> url]>>]
  ELSE MergePose(prevHistory, index, key, url)

RegenerateResolved(p) ==
  /\ recentCreations' = AddRecentCreation(recentCreations, p.id, "image")
  /\ outfitHistory' = Regenerated(outfitHistory, p.idx, p.action, p.poseKey, p.id)
  /\ isLoading' = FALSE
  /\ UNCHANGED <<modelImageUrl, currentOutfitIndex, currentPoseIndex, error,
                 wardrobe, lastAction, currentBackground, crashed>>

\* a state updater read a layer that does not exist: the render throws and,
\* with no error boundary, React unmounts the tree; nothing is committed
UpdaterThrows(p) ==
  /\ p.kind \in {"pose", "regenerate"}
  /\ ~HasLayer(outfitHistory, p.idx)

\* the gateway call of p resolves with image p.id: the handler's continuation
GatewayResolves(p) ==
  /\ ~crashed
  /\ UNCHANGED <<serviceVars, manifestVars>>
  /\ pending' = pending \ {p}
  /\ IF UpdaterThrows(p)
     THEN /\ crashed' = TRUE
          /\ lastOp' = Done("resolve", "crash", p)
          /\ UNCHANGED <<modelImageUrl, outfitHistory, currentOutfitIndex,
                         isLoading, error, currentPoseIndex, wardrobe,
                         hasSavedOutfit, recentCreations, lastAction,
                         currentBackground, storage>>
     ELSE /\ CASE p.kind = "try-on" -> GarmentResolved(p)
               [] p.kind = "pose" -> PoseResolved(p)
               [] p.kind \in {"edit", "background"} -> EditResolved(p)
               [] p.kind = "regenerate" -> RegenerateResolved(p)
          /\ lastOp' = Done("resolve", "ok", p)
          /\ SaveEffect(storage, hasSavedOutfit, FALSE)
  /\ UNCHANGED <<quota, calls, models, sinceReset>>

\* mutant: a failure surfaces nothing
SilentContext(kind) == NoError

\* the context getFriendlyErrorMessage is given in each catch block
ErrorContext(kind) ==
  CASE kind = "try-on" -> "Failed to apply garment"
    [] kind = "pose" -> "Failed to change pose"
    [] kind = "edit" -> "Failed to edit image"
    [] kind = "background" -> "Failed to change background"
    [] kind = "regenerate" -> "Failed to regenerate"

\* the gateway call of p rejects: the handler's catch and finally blocks
GatewayRejects(p) ==
  /\ ~crashed
  /\ UNCHANGED <<serviceVars, manifestVars>>
  /\ pending' = pending \ {p}
  /\ IF p.kind = "pose" THEN PoseRejected(p)
     ELSE /\ Rejected(ErrorContext(p.kind))
          /\ UNCHANGED currentPoseIndex
  /\ lastOp' = Done("reject", "failed", p)
  /\ UNCHANGED <<hasSavedOutfit, storage, quota, calls, models, sinceReset>>

\* mutant: ids synthesized without the position
LegacyCreationsOneId(urls) ==
  [k \in 1..Len(urls) |-> [id |-> <<"legacy-", 0>>, url |-> urls[k], type |-> "image"]]

\* parsed.recentImages.map((url, i) => ({ id: `legacy-${i}`, url, type: 'image' }))
LegacyCreations(urls) ==
  [k \in 1..Len(urls) |-> [id |-> <<"legacy-", k - 1>>, url |-> urls[k], type |-> "image"]]

\* savedHistory.map(layer => layer.garment).filter(g => g && g.id.startsWith('custom-'))
RECURSIVE SavedCustomItems(_)
SavedCustomItems(history) ==
  IF history = <<>> THEN <<>>
  ELSE LET g == Head(history).garment
       IN IF g # NullGarment /\ StartsWith(g.id, "custom-")
          THEN <<g>> \o SavedCustomItems(Tail(history))
          ELSE SavedCustomItems(Tail(history))

\* savedCustomItems.filter(item => !existingIds.has(item.id))
RECURSIVE NewItems(_, _)
NewItems(items, prev) ==
  IF items = <<>> THEN <<>>
  ELSE IF \E k \in 1..Len(prev) : prev[k].id = Head(items).id
       THEN NewItems(Tail(items), prev)
       ELSE <<Head(items)>> \o NewItems(Tail(items), prev)

\* the mark of a load that adopted the record: the record and the wardrobe
\* it started from
Loaded == [NoSnap EXCEPT !.stored = storage, !.wardrobe = wardrobe]

\* mutant: the first layer's base image is not asked for
LoadableWithoutBaseImage(r) ==
  /\ r.parsable
  /\ r.hasHistory
  /\ Len(r.outfitHistory) > 0

\* the stored record passes handleLoadOutfit's checks
Loadable(r) ==
  /\ r.parsable
  /\ r.hasHistory
  /\ Len(r.outfitHistory) > 0
  /\ FirstValue(r.outfitHistory[1].poseImages) # NoImage

\* the mark of a load: paired when the step before was the reload of the page
\* that follows a save, and `before` is then the state that save ran on
AfterReload(op) ==
  LET paired == lastOp.name = "reload"
  IN [op EXCEPT !.paired = paired,
                !.before = IF paired THEN lastOp.before ELSE NoSnap]

handleLoadOutfit ==
  /\ ~crashed
  /\ UNCHANGED <<serviceVars, manifestVars>>
  /\ IF ~storage.present
     THEN NoOp("handleLoadOutfit", "noop", 0, NullGarment)
     ELSE IF ~Loadable(storage)
     THEN /\ storage' = AbsentRecord
          /\ hasSavedOutfit' = FALSE
          /\ error' = "Could not load saved outfit"
          /\ lastOp' = [Op("handleLoadOutfit", "failed") EXCEPT !.from = Snapshot]
          /\ UNCHANGED <<modelImageUrl, outfitHistory, currentOutfitIndex,
                         isLoading, currentPoseIndex, wardrobe, recentCreations,
                         lastAction, currentBackground, quota, pending, calls,
                         models, crashed, sinceReset>>
     ELSE /\ modelImageUrl' = FirstValue(storage.outfitHistory[1].poseImages)
          /\ outfitHistory' = storage.outfitHistory
          /\ currentOutfitIndex' =
               IF storage.hasIndex THEN storage.currentOutfitIndex ELSE 0
          /\ recentCreations' =
               IF storage.hasCreations THEN storage.recentCreations
               ELSE IF storage.hasLegacy THEN LegacyCreations(storage.recentImages)
               ELSE <<>>
          /\ lastAction' = NullAction
          /\ currentBackground' =
               IF storage.currentBackground # "" THEN storage.currentBackground
               ELSE currentBackground
          /\ wardrobe' =
               wardrobe \o NewItems(SavedCustomItems(storage.outfitHistory), wardrobe)
          /\ SaveEffect(storage, hasSavedOutfit, TRUE)
          /\ sinceReset' = FALSE
          /\ lastOp' = AfterReload([Op("handleLoadOutfit", "ok") EXCEPT
                                       !.from = Loaded])
          /\ UNCHANGED <<isLoading, error, currentPoseIndex, quota, pending,
                         calls, models, crashed>>

Next ==
  \/ \E url \in ModelUrlInputs : handleModelFinalized(url)
  \/ handleConfirmStartOver
  \/ handleLoadOutfit
  \/ \E g \in GarmentInputs : handleGarmentSelect(g)
  \/ handleUndo
  \/ handleRedo
  \/ \E i \in PoseInputs : handlePoseSelect(i)
  \/ \E prompt \in EditPromptInputs : handleImageEdit(prompt)
  \/ \E prompt \in BackgroundPromptInputs : handleBackgroundChange(prompt)
  \/ handleRegenerate
  \/ \E p \in pending : GatewayResolves(p)
  \/ \E p \in pending : GatewayRejects(p)

Spec == Init /\ [][Next]_vars

\* ------------------------------------------------- the save effect by itself
\* The save effect as a function of the committed state it runs on: the state
\* is drawn from the values of its types, the effect runs once.
BaseLayerInput ==
  [garment |-> NullGarment,
   poseImages |-> <<[label |-> POSE_INSTRUCTIONS[1], url |-> 100]>>]

GarmentLayerInputs ==
  { [garment |-> CatalogGarment,
     poseImages |-> <<[label |-> POSE_INSTRUCTIONS[1], url |-> 101]>>],
    [garment |-> CustomGarment,
     poseImages |-> <<[label |-> POSE_INSTRUCTIONS[1], url |-> 102],
                      [label |-> POSE_INSTRUCTIONS[2], url |-> 103]>>] }

HistoryInputs ==
  {<<>>, <<BaseLayerInput>>}
    \cup {<<BaseLayerInput, l>> : l \in GarmentLayerInputs}
    \cup {<<BaseLayerInput, l, m>> : l, m \in GarmentLayerInputs}

\* CreationItem: type is 'image' | 'video'
CreationTypeInputs == {"image", "video"}

\* the logs of up to MaxSaveLog creations, each of either type, newest first
CreationLogInputs ==
  UNION { { [k \in 1..n |-> [id |-> <<"now">>, url |-> 110 + k, type |-> t[k]]] :
              t \in [1..n -> CreationTypeInputs] } : n \in 0..MaxSaveLog }

SaveQuotaInputs == (0..MaxSaveQuota) \cup {LargeQuota}

SaveInit ==
  /\ modelImageUrl = NoImage
  /\ outfitHistory \in HistoryInputs
  /\ currentOutfitIndex \in {i \in 0..2 : i = 0 \/ i < Len(outfitHistory)}
  /\ isLoading = FALSE
  /\ error = NoError
  /\ currentPoseIndex = 0
  /\ wardrobe = defaultWardrobe
  /\ recentCreations \in CreationLogInputs
  /\ lastAction = NullAction
  /\ currentBackground \in {"", STUDIO_PROMPT}
  /\ storage \in StoredInputs
  /\ hasSavedOutfit = storage.present
  /\ quota \in SaveQuotaInputs
  /\ pending = {}
  /\ calls = 0
  /\ models = 0
  /\ crashed = FALSE
  /\ sinceReset = FALSE
  /\ lastOp = Op("mount", "ok")
  /\ ServiceIdle
  /\ ManifestIdle

\* the effect's run on the committed state
SaveRuns ==
  /\ lastOp.name = "mount"
  /\ UNCHANGED <<serviceVars, manifestVars>>
  /\ UNCHANGED <<modelImageUrl, outfitHistory, currentOutfitIndex, isLoading,
                 error, currentPoseIndex, wardrobe, recentCreations, lastAction,
                 currentBackground, quota, pending, calls, models, crashed,
                 sinceReset>>
  /\ SaveEffect(storage, hasSavedOutfit, TRUE)
  /\ lastOp' = [Op("save effect", "ok") EXCEPT !.from = Snapshot]

SaveNext == SaveRuns

SaveSpec == SaveInit /\ [][SaveNext]_vars

\* ------------------------------------------------------- the load by itself
\* handleLoadOutfit on a freshly mounted engine, over the records that may be
\* found under the key: written by any session, of any version, or damaged.
UploadedGarment ==
  [id |-> <<"custom-", "2">>, name |-> "My Coat", url |-> <<"data:", "2">>]

StoredHistoryInputs ==
  { <<>>,
    <<BaseLayerInput>>,
    <<[garment |-> NullGarment, poseImages |-> <<>>]>>,
    <<[garment |-> CatalogGarment,
       poseImages |-> <<[label |-> POSE_INSTRUCTIONS[1], url |-> 101]>>]>>,
    <<BaseLayerInput,
      [garment |-> CatalogGarment,
       poseImages |-> <<[label |-> POSE_INSTRUCTIONS[1], url |-> 101]>>]>>,
    <<BaseLayerInput,
      [garment |-> UploadedGarment,
       poseImages |-> <<[label |-> POSE_INSTRUCTIONS[1], url |-> 102]>>],
      [garment |-> UploadedGarment,
       poseImages |-> <<[label |-> POSE_INSTRUCTIONS[1], url |-> 103]>>]>>,
    <<BaseLayerInput,
      [garment |-> NullGarment,
       poseImages |-> <<[label |-> POSE_INSTRUCTIONS[1], url |-> 102]>>]>> }

StoredIndexInputs == {0, 1, 3}

StoredCreationInputs ==
  { <<>>, <<[id |-> <<"now">>, url |-> 101, type |-> "image"]>> }

StoredLegacyInputs == { <<>>, <<120, 121, 120>> }

RecordInputs ==
  { [AbsentRecord EXCEPT !.present = TRUE] }
  \cup { [AbsentRecord EXCEPT !.present = TRUE, !.parsable = TRUE] }
  \cup { [present |-> TRUE, parsable |-> TRUE, hasHistory |-> TRUE,
          outfitHistory |-> h, hasIndex |-> hi,
          currentOutfitIndex |-> IF hi THEN i ELSE 0,
          hasCreations |-> hc,
          recentCreations |-> IF hc THEN c ELSE <<>>,
          hasLegacy |-> hl,
          recentImages |-> IF hl THEN l ELSE <<>>,
          currentBackground |-> b] :
            h \in StoredHistoryInputs, hi \in BOOLEAN, i \in StoredIndexInputs,
            hc \in BOOLEAN, c \in StoredCreationInputs,
            hl \in BOOLEAN, l \in StoredLegacyInputs,
            b \in {"", STUDIO_PROMPT} }

WardrobeInputs == { defaultWardrobe, defaultWardrobe \o <<UploadedGarment>> }

LoadInit ==
  /\ modelImageUrl = NoImage
  /\ outfitHistory = <<>>
  /\ currentOutfitIndex = 0
  /\ isLoading = FALSE
  /\ error = NoError
  /\ currentPoseIndex = 0
  /\ wardrobe \in WardrobeInputs
  /\ recentCreations = <<>>
  /\ lastAction = NullAction
  /\ currentBackground = ""
  /\ storage \in RecordInputs
  /\ hasSavedOutfit = storage.present
  /\ quota \in QuotaInputs
  /\ pending = {}
  /\ calls = 0
  /\ models = 0
  /\ crashed = FALSE
  /\ sinceReset = FALSE
  /\ lastOp = Op("mount", "ok")
  /\ ServiceIdle
  /\ ManifestIdle

LoadNext == handleLoadOutfit

LoadSpec == LoadInit /\ [][LoadNext]_vars

\* ------------------------------------------------ a session five layers deep
\* The engine in a session that applied four garments, at its newest layer;
\* from there the user navigates and applies garments.
NewGarment ==
  [id |-> <<"g2">>, name |-> "Blue Jeans", url |-> <<"https:", "g2.png">>]

DeepHistory ==
  << BaseLayerInput,
     [garment |-> CatalogGarment,
      poseImages |-> <<[label |-> POSE_INSTRUCTIONS[1], url |-> 101]>>],
     [garment |-> CustomGarment,
      poseImages |-> <<[label |-> POSE_INSTRUCTIONS[1], url |-> 102]>>],
     [garment |-> CatalogGarment,
      poseImages |-> <<[label |-> POSE_INSTRUCTIONS[1], url |-> 103]>>],
     [garment |-> CustomGarment,
      poseImages |-> <<[label |-> POSE_INSTRUCTIONS[1], url |-> 104]>>] >>

DeepCreations ==
  [k \in 1..Len(DeepHistory) |->
     [id |-> <<"now">>, url |-> 105 - k, type |-> "image"]]

DeepGarmentInputs == {NewGarment, CustomGarment}

DeepInit ==
  /\ modelImageUrl = 100
  /\ outfitHistory = DeepHistory
  /\ currentOutfitIndex = Len(DeepHistory) - 1
  /\ isLoading = FALSE
  /\ error = NoError
  /\ currentPoseIndex = 0
  /\ wardrobe = defaultWardrobe \o <<CustomGarment>>
  /\ recentCreations = DeepCreations
  /\ lastAction = TryOnAction(CustomGarment)
  /\ currentBackground = STUDIO_PROMPT
  /\ quota \in QuotaInputs
  /\ storage = SessionRecord(SafeOutfitHistory(DeepHistory), Len(DeepHistory) - 1,
                             DeepCreations, STUDIO_PROMPT)
  /\ hasSavedOutfit = TRUE
  /\ pending = {}
  /\ calls = 0
  /\ models = MaxModels
  /\ crashed = FALSE
  /\ sinceReset = FALSE
  /\ lastOp = Op("mount", "ok")
  /\ ServiceIdle
  /\ ManifestIdle

DeepNext ==
  \/ handleUndo
  \/ handleRedo
  \/ \E g \in DeepGarmentInputs : handleGarmentSelect(g)
  \/ \E p \in pending : GatewayResolves(p)
  \/ \E p \in pending : GatewayRejects(p)

DeepSpec == DeepInit /\ [][DeepNext]_vars

\* ------------------------------------------ the handlers as the views offer them
\* The handlers behind the controls that render them.  The start screen is
\* rendered while there is no model image, the main view otherwise; Canvas and
\* EditorControls disable their buttons while isLoading.  OutfitStack and
\* WardrobePanel are given no reason to refuse here: OutfitStack gets no
\* isLoading prop at all, and it too is bound to handleUndo.

\* {!modelImageUrl ? <StartScreen .../> : <main view>}
StartScreenShown == modelImageUrl = NoImage

canUndo == CanUndo(outfitHistory, currentOutfitIndex)

canRedo == CanRedo(outfitHistory, currentOutfitIndex)

canRegenerate == currentOutfitIndex > 0 /\ lastAction # NullAction

\* Canvas: disabled={!canUndo || isLoading}
UndoDisabled == ~canUndo \/ isLoading

\* mutant: the redo button is disabled by the history alone
RedoDisabledByHistory == ~canRedo

\* Canvas: disabled={!canRedo || isLoading}
RedoDisabled == ~canRedo \/ isLoading

\* Canvas: disabled={!canRegenerate || isLoading}
RegenerateDisabled == ~canRegenerate \/ isLoading

\* EditorControls: disabled={isLoading} on the pose and background buttons,
\* and handleEditSubmit's !isLoading
ControlsDisabled == isLoading

CanvasNext ==
  \/ StartScreenShown /\ \E url \in ModelUrlInputs : handleModelFinalized(url)
  \/ StartScreenShown /\ hasSavedOutfit /\ handleLoadOutfit
  \/ ~StartScreenShown /\ handleConfirmStartOver
  \/ ~StartScreenShown /\ \E g \in GarmentInputs : handleGarmentSelect(g)
  \/ ~StartScreenShown /\ ~UndoDisabled /\ handleUndo
  \/ ~StartScreenShown /\ handleUndo
  \/ ~StartScreenShown /\ ~RedoDisabled /\ handleRedo
  \/ ~StartScreenShown /\ ~RegenerateDisabled /\ handleRegenerate
  \/ ~StartScreenShown /\ ~ControlsDisabled
       /\ \E i \in PoseInputs : handlePoseSelect(i)
  \/ ~StartScreenShown /\ ~ControlsDisabled
       /\ \E prompt \in EditPromptInputs : handleImageEdit(prompt)
  \/ ~StartScreenShown /\ ~ControlsDisabled
       /\ \E prompt \in BackgroundPromptInputs : handleBackgroundChange(prompt)
  \/ \E p \in pending : GatewayResolves(p)
  \/ \E p \in pending : GatewayRejects(p)

CanvasSpec == Init /\ [][CanvasNext]_vars

\* ------------------------------------------------- save, reload, then load
\* The save effect run on a committed state, the page reloaded (the App
\* mounts again on the storage the last session left), and the resume button
\* of the start screen.

\* the quotas of the round trip: nothing fits, little fits, everything fits
RoundTripQuotaInputs == {0, MaxSaveQuota, LargeQuota}

RoundTripInit ==
  /\ SaveInit
  /\ quota \in RoundTripQuotaInputs

\* the App mounts again: the state hooks' initial values, the startup effect
Reload ==
  /\ lastOp.name = "save effect"
  /\ UNCHANGED <<serviceVars, manifestVars>>
  /\ modelImageUrl' = NoImage
  /\ outfitHistory' = <<>>
  /\ currentOutfitIndex' = 0
  /\ isLoading' = FALSE
  /\ error' = NoError
  /\ currentPoseIndex' = 0
  /\ wardrobe' = defaultWardrobe
  /\ recentCreations' = <<>>
  /\ lastAction' = NullAction
  /\ currentBackground' = ""
  /\ hasSavedOutfit' = storage.present
  /\ lastOp' = [Op("reload", "ok") EXCEPT !.from = Snapshot, !.paired = TRUE,
                                          !.before = lastOp.from]
  /\ UNCHANGED <<storage, quota, pending, calls, models, crashed, sinceReset>>

RoundTripNext ==
  \/ SaveRuns
  \/ Reload
  \/ lastOp.name = "reload" /\ hasSavedOutfit /\ handleLoadOutfit

RoundTripSpec == RoundTripInit /\ [][RoundTripNext]_vars

\* ---------------------------------------------------- the gateway service
\* One operation of geminiService: the request is built, the model answers,
\* handleApiResponse picks the image and addWatermark draws on it.  What the
\* model answers and what the browser's canvas does are drawn in Init.

\* the candidates of a response
MaxCandidates == 2

\* candidate.finishReason (absent, 'STOP', or a reason to stop early)
FinishReasonInputs == {"", "STOP", "SAFETY"}

\* a candidate: its first part with inlineData (NoImage: it has none)
CandidateInputs == [image : {NoImage, 201}, finishReason : FinishReasonInputs]

CandidateListInputs ==
  UNION { [1..n -> CandidateInputs] : n \in 0..MaxCandidates }

\* what ai.models.generateContent gives: it rejects (failed), or a response
ResponseInputs ==
  [failed : BOOLEAN, blockReason : {"", "SAFETY"},
   candidates : CandidateListInputs, text : {"", "I cannot do that"}]

\* the browser addWatermark runs in: whether the image loads (onload or
\* onerror) and whether canvas.getContext('2d') gives a context
CanvasInputs == [loads : BOOLEAN, context : BOOLEAN]

\* the operation's inputs: whether the file and the data URLs can be read
RequestInputs == [readable : BOOLEAN]

\* candidate.content?.parts?.find(part => part.inlineData), candidate by
\* candidate
RECURSIVE FirstImage(_)
FirstImage(candidates) ==
  IF candidates = <<>> THEN NoImage
  ELSE IF Head(candidates).image # NoImage THEN Head(candidates).image
       ELSE FirstImage(Tail(candidates))

addWatermark(imageUrl, browser) ==
  IF ~browser.loads THEN imageUrl
  ELSE IF ~browser.context THEN imageUrl
       ELSE DataUrl(imageUrl.image, TRUE)

\* the promise resolves with url
Resolved(url) == [status |-> "resolved", url |-> url, message |-> ""]

\* the promise rejects with new Error(message)
Thrown(message) ==
  [status |-> "rejected", url |-> DataUrl(NoImage, FALSE), message |-> message]

handleApiResponse(resp, browser) ==
  IF resp.blockReason # "" THEN Thrown("Request was blocked")
  ELSE IF FirstImage(resp.candidates) # NoImage
  THEN Resolved(addWatermark(DataUrl(FirstImage(resp.candidates), FALSE), browser))
  ELSE IF /\ Len(resp.candidates) > 0
          /\ resp.candidates[1].finishReason \notin {"", "STOP"}
  THEN Thrown("Image generation stopped unexpectedly")
  ELSE Thrown("The AI model did not return an image")

\* an exported operation: fileToPart / dataUrlToPart, generateContent,
\* handleApiResponse
Operation(name) ==
  LET settled == IF ~request.readable THEN Thrown("Invalid data URL")
                 ELSE IF response.failed THEN Thrown("generateContent rejected")
                 ELSE handleApiResponse(response, canvas)
  IN /\ returned.status = "none"
     /\ returned' = [operation |-> name, status |-> settled.status,
                     url |-> settled.url, message |-> settled.message]
     /\ UNCHANGED <<request, response, canvas, engineVars, manifestVars>>

generateModelImage == Operation("generateModelImage")

generateVirtualTryOnImage == Operation("generateVirtualTryOnImage")

generatePoseVariation == Operation("generatePoseVariation")

editImageWithPrompt == Operation("editImageWithPrompt")

GatewayInit ==
  /\ EngineIdle
  /\ ManifestIdle
  /\ request \in RequestInputs
  /\ response \in ResponseInputs
  /\ canvas \in CanvasInputs
  /\ returned = [operation |-> "", status |-> "none",
                 url |-> DataUrl(NoImage, FALSE), message |-> ""]

GatewayNext ==
  \/ generateModelImage
  \/ generateVirtualTryOnImage
  \/ generatePoseVariation
  \/ editImageWithPrompt

GatewaySpec == GatewayInit /\ [][GatewayNext]_vars

\* ------------------------------------------------ the manifest's display mode
\* getDisplayMode of the manifest test, run once on a drawn manifest and a
\* drawn set of supported modes.

\* the entries of a display_override list
MaxOverride == 2

\* WebAppManifest.display
DisplayInputs == {"fullscreen", "standalone", "minimal-ui", "browser"}

\* the entries of WebAppManifest.display_override
OverrideInputs == DisplayInputs \cup {"window-controls-overlay"}

\* a manifest: display may be missing (""), display_override may be missing
ManifestInputs ==
  { [display |-> d, hasOverride |-> TRUE, display_override |-> o] :
      d \in DisplayInputs \cup {""},
      o \in UNION { [1..n -> OverrideInputs] : n \in 0..MaxOverride } }
  \cup { [display |-> d, hasOverride |-> FALSE, display_override |-> <<>>] :
           d \in DisplayInputs \cup {""} }

SupportedModesInputs == SUBSET OverrideInputs

\* for (const mode of manifest.display_override)
\*   if (supportedModes.includes(mode)) return mode;   ("": the loop ends)
RECURSIVE FirstSupported(_, _)
FirstSupported(modes, supported) ==
  IF modes = <<>> THEN ""
  ELSE IF Head(modes) \in supported THEN Head(modes)
       ELSE FirstSupported(Tail(modes), supported)

\* mutant: the display member is looked at before display_override
GetDisplayModeDisplayFirst(m, supported) ==
  IF m.display # "" /\ m.display \in supported THEN m.display
  ELSE IF /\ m.hasOverride /\ Len(m.display_override) > 0
          /\ FirstSupported(m.display_override, supported) # ""
  THEN FirstSupported(m.display_override, supported)
  ELSE "browser"

getDisplayMode(m, supported) ==
  IF /\ m.hasOverride /\ Len(m.display_override) > 0
     /\ FirstSupported(m.display_override, supported) # ""
  THEN FirstSupported(m.display_override, supported)
  ELSE IF m.display # "" /\ m.display \in supported THEN m.display
  ELSE "browser"

\* const result = getDisplayMode(manifest, supportedModes)
GetDisplayModeCalled ==
  /\ displayMode = ""
  /\ displayMode' = getDisplayMode(manifest, supportedModes)
  /\ UNCHANGED <<manifest, supportedModes, engineVars, serviceVars>>

ManifestInit ==
  /\ EngineIdle
  /\ ServiceIdle
  /\ manifest \in ManifestInputs
  /\ supportedModes \in SupportedModesInputs
  /\ displayMode = ""

ManifestNext == GetDisplayModeCalled

ManifestSpec == ManifestInit /\ [][ManifestNext]_vars

\* ================================================================== claims
\* The Uninitialized state of the engine.
Uninitialized ==
  /\ outfitHistory = <<>>
  /\ currentOutfitIndex = 0
  /\ currentPoseIndex = 0
  /\ lastAction = NullAction
  /\ modelImageUrl = NoImage

\* C1: whenever outfitHistory is non-empty, 0 <= currentOutfitIndex <
\* length(outfitHistory) and outfitHistory[0].garment is null, after any
\* sequence of operations with gateway calls resolving or rejecting at any
\* later point.
C1_IndexInHistory ==
  Len(outfitHistory) > 0 =>
    /\ 0 <= currentOutfitIndex
    /\ currentOutfitIndex < Len(outfitHistory)
    /\ outfitHistory[1].garment = NullGarment

\* C2: at any time at most one engine gateway call is outstanding.
C2_AtMostOneOutstanding == Cardinality(pending) <= 1

\* the engine state is what the snapshot f recorded
EngineSame(f) ==
  /\ outfitHistory = f.hist
  /\ currentOutfitIndex = f.idx
  /\ currentPoseIndex = f.pose
  /\ lastAction = f.lastAction
  /\ recentCreations = f.creations
  /\ wardrobe = f.wardrobe
  /\ currentBackground = f.bg
  /\ isLoading = f.loading
  /\ error = f.error
  /\ modelImageUrl = f.model

\* the step just taken continued call `kind`, directly after its handler issued it
Continued(name, kind) ==
  /\ lastOp.name = name
  /\ lastOp.call.kind = kind
  /\ lastOp.paired

\* C3: a slow-path apply-garment issued at index i (a layer of the history)
\* whose gateway call succeeds with no other operation in between leaves the
\* history equal to the old layers 0..i followed by exactly one new layer
\* {garment, {label of the pose index at call time: result}}, of length i+2;
\* the index is i+1, the pose index 0, LastAction the try-on of that garment,
\* the result the newest creation, and the garment is appended to the
\* wardrobe iff no item with its id was there.
C3_SlowPathApplyGarment ==
  (/\ Continued("resolve", "try-on")
   /\ lastOp.result = "ok"
   /\ HasLayer(lastOp.before.hist, lastOp.before.idx)) =>
    LET b == lastOp.before
        g == lastOp.garment
        i == b.idx
        result == lastOp.call.id
        newLayer ==
          [garment |-> g,
           poseImages |-> <<[label |-> POSE_INSTRUCTIONS[b.pose + 1], url |-> result]>>]
    IN /\ outfitHistory = SubSeq(b.hist, 1, i + 1) \o <<newLayer>>
       /\ Len(outfitHistory) = i + 2
       /\ currentOutfitIndex = i + 1
       /\ currentPoseIndex = 0
       /\ lastAction.type = "try-on" /\ lastAction.garmentInfo = g
       /\ recentCreations # <<>> /\ recentCreations[1].url = result
       /\ wardrobe =
            IF \E k \in 1..Len(b.wardrobe) : b.wardrobe[k].id = g.id
            THEN b.wardrobe
            ELSE Append(b.wardrobe, g)

\* C3's case: the apply-garment was issued below the newest layer, with a
\* garment the wardrobe did not hold
C3_Witness ==
  /\ Continued("resolve", "try-on")
  /\ lastOp.result = "ok"
  /\ HasLayer(lastOp.before.hist, lastOp.before.idx)
  /\ Len(lastOp.before.hist) > lastOp.before.idx + 1
  /\ Len(wardrobe) > Len(lastOp.before.wardrobe)

\* C4: if the gateway try-on call of apply-garment fails, the history, index,
\* pose index, LastAction, creation log, wardrobe and background all equal
\* their values from before apply-garment was invoked.
C4_FailedApplyRestoresAll ==
  Continued("reject", "try-on") =>
    LET b == lastOp.before
    IN /\ outfitHistory = b.hist
       /\ currentOutfitIndex = b.idx
       /\ currentPoseIndex = b.pose
       /\ lastAction = b.lastAction
       /\ recentCreations = b.creations
       /\ wardrobe = b.wardrobe
       /\ currentBackground = b.bg

\* C5: after reset the engine is Uninitialized and stays so until a new base
\* layer is established by model finalization or load.
C5_ResetStaysUninitialized == sinceReset => Uninitialized

\* C6: after reset the record under the session key is absent and the resume
\* flag is false, and no record is written until a model is finalized.
C6_NoRecordAfterReset == sinceReset => (~storage.present /\ ~hasSavedOutfit)

\* C7: apply-garment invoked (a derived image exists, nothing in flight) at
\* index i when layer i+1 exists and has the selected garment's id performs
\* no gateway call: the index becomes i+1, the pose index 0, and the history,
\* LastAction, the creation log and the wardrobe are unchanged.
C7_RedoShortcut ==
  LET f == lastOp.from
  IN (/\ lastOp.name = "handleGarmentSelect"
      /\ ~f.loading
      /\ DisplayImageUrl(f.model, f.hist, f.idx, f.pose) # NoImage
      /\ HasLayer(f.hist, f.idx + 1)
      /\ f.hist[f.idx + 2].garment # NullGarment
      /\ f.hist[f.idx + 2].garment.id = lastOp.garment.id) =>
       /\ calls = f.calls
       /\ currentOutfitIndex = f.idx + 1
       /\ currentPoseIndex = 0
       /\ outfitHistory = f.hist
       /\ lastAction = f.lastAction
       /\ recentCreations = f.creations
       /\ wardrobe = f.wardrobe

\* C7's case: the shortcut was taken from a pose other than the first
C7_Witness ==
  /\ lastOp.name = "handleGarmentSelect"
  /\ lastOp.result = "fast"
  /\ lastOp.from.pose # 0
  /\ currentOutfitIndex = lastOp.from.idx + 1

\* what undo and redo never touch
NavigationFrame(f) ==
  /\ calls = f.calls
  /\ outfitHistory = f.hist
  /\ lastAction = f.lastAction
  /\ recentCreations = f.creations
  /\ wardrobe = f.wardrobe
  /\ currentBackground = f.bg

\* C8: undo decrements the index iff it is > 0 and redo increments it iff it
\* is < length-1; a move sets the pose index to 0, otherwise nothing changes;
\* neither issues a gateway call or changes the history, LastAction, the
\* creation log, the wardrobe or the background.
C8_UndoRedoMoveThePointerOnly ==
  LET f == lastOp.from
  IN /\ lastOp.name = "handleUndo" =>
          /\ NavigationFrame(f)
          /\ IF f.idx > 0
             THEN currentOutfitIndex = f.idx - 1 /\ currentPoseIndex = 0
             ELSE EngineSame(f)
     /\ lastOp.name = "handleRedo" =>
          /\ NavigationFrame(f)
          /\ IF f.idx < Len(f.hist) - 1
             THEN currentOutfitIndex = f.idx + 1 /\ currentPoseIndex = 0
             ELSE EngineSame(f)

\* C8's case: a redo that moved from a pose other than the first, with the
\* history, the log and LastAction of the generation before it
C8_Witness ==
  /\ lastOp.name = "handleRedo"
  /\ lastOp.result = "moved"
  /\ lastOp.from.pose # 0
  /\ ~lastOp.from.loading
  /\ lastOp.from.lastAction # NullAction

\* C9: undo followed immediately by redo from an index i with 0 < i <
\* length-1 returns to index i with every layer as before, and the pose index
\* is 0 afterwards.
C9_UndoThenRedo ==
  LET b == lastOp.before
  IN (/\ lastOp.name = "handleRedo"
      /\ lastOp.paired
      /\ 0 < b.idx
      /\ b.idx < Len(b.hist) - 1) =>
       /\ currentOutfitIndex = b.idx
       /\ outfitHistory = b.hist
       /\ currentPoseIndex = 0

\* C9's case: the pose selected before the undo was not the first, and its
\* image stays cached in the layer
C9_Witness ==
  LET b == lastOp.before
  IN /\ lastOp.name = "handleRedo"
     /\ lastOp.paired
     /\ 0 < b.idx
     /\ b.idx < Len(b.hist) - 1
     /\ b.pose # 0
     /\ PoseHas(outfitHistory[currentOutfitIndex + 1].poseImages,
                POSE_INSTRUCTIONS[b.pose + 1])

\* C10: change-pose changes nothing and calls nothing when a generation is in
\* flight, the history is empty or the target is the current pose index; when
\* the active layer already has an image under the target label it only sets
\* the pose index, with no gateway call and the history, index, LastAction
\* and creation log unchanged.
C10_ChangePoseNoOpOrCached ==
  LET f == lastOp.from
      t == lastOp.arg
      ignored == f.loading \/ Len(f.hist) = 0 \/ t = f.pose
  IN lastOp.name = "handlePoseSelect" =>
       /\ ignored => (EngineSame(f) /\ calls = f.calls)
       /\ (/\ ~ignored
           /\ HasLayer(f.hist, f.idx)
           /\ PoseHas(f.hist[f.idx + 1].poseImages, POSE_INSTRUCTIONS[t + 1])) =>
            /\ currentPoseIndex = t
            /\ calls = f.calls
            /\ outfitHistory = f.hist
            /\ currentOutfitIndex = f.idx
            /\ lastAction = f.lastAction
            /\ recentCreations = f.creations

\* C10's case: a pose already generated for the active layer was selected
\* again from another pose
C10_Witness ==
  /\ lastOp.name = "handlePoseSelect"
  /\ lastOp.result = "cached"
  /\ lastOp.arg # lastOp.from.pose
  /\ currentPoseIndex = lastOp.arg

\* C11: a slow-path change-pose sets the pose index to the target before its
\* gateway call resolves, and a success directly after adds the result to the
\* active layer's poseImages under the target label only: the history length,
\* the index, every other layer, the layer's garment and its other pose
\* entries are unchanged.
C11_SlowPoseMergesOneLabel ==
  /\ (lastOp.name = "handlePoseSelect" /\ lastOp.result = "issued") =>
       /\ currentPoseIndex = lastOp.arg
       /\ lastOp.call \in pending
       /\ outfitHistory = lastOp.from.hist
       /\ currentOutfitIndex = lastOp.from.idx
  /\ (Continued("resolve", "pose") /\ lastOp.result = "ok") =>
       LET b == lastOp.before
           i == b.idx
           label == POSE_INSTRUCTIONS[lastOp.arg + 1]
           old == b.hist[i + 1].poseImages
           new == outfitHistory[i + 1].poseImages
       IN /\ currentPoseIndex = lastOp.arg
          /\ Len(outfitHistory) = Len(b.hist)
          /\ currentOutfitIndex = i
          /\ \A k \in 1..Len(b.hist) : k # i + 1 => outfitHistory[k] = b.hist[k]
          /\ outfitHistory[i + 1].garment = b.hist[i + 1].garment
          /\ ~PoseHas(old, label)
          /\ Len(new) = Len(old) + 1
          /\ \A k \in 1..Len(old) : new[k] = old[k]
          /\ new[Len(new)] = [label |-> label, url |-> lastOp.call.id]

\* C11's case: the pose was generated for a garment layer that has a layer
\* below it, and the layer keeps the image it had
C11_Witness ==
  /\ Continued("resolve", "pose")
  /\ lastOp.result = "ok"
  /\ currentOutfitIndex > 0
  /\ outfitHistory[currentOutfitIndex + 1].garment # NullGarment
  /\ Len(outfitHistory[currentOutfitIndex + 1].poseImages) = 2

\* C12: if the gateway call of a slow-path change-pose fails, the pose index
\* is again what it was immediately before change-pose was invoked, the
\* history and the index are unchanged, and the error is surfaced.
C12_FailedPoseReverts ==
  Continued("reject", "pose") =>
    LET b == lastOp.before
    IN /\ currentPoseIndex = b.pose
       /\ currentPoseIndex # lastOp.arg
       /\ outfitHistory = b.hist
       /\ currentOutfitIndex = b.idx
       /\ error = "Failed to change pose"
       /\ ~isLoading

\* C12's case: the failed change-pose was invoked on a garment layer
C12_Witness ==
  /\ Continued("reject", "pose")
  /\ lastOp.arg = 1
  /\ currentPoseIndex = 0
  /\ currentOutfitIndex > 0
  /\ error # NoError

\* C13: a successful edit or change-background issued at index i (a layer of
\* the history) creates exactly one new entry: the history becomes the old
\* layers 0..i followed by a layer with layer i's garment and layer i's
\* poseImages overridden at the current pose label with the new image; the
\* index becomes i+1 and layer i itself is unchanged.
C13_EditAppendsOneLayer ==
  (/\ lastOp.name = "resolve"
   /\ lastOp.call.kind \in {"edit", "background"}
   /\ lastOp.paired
   /\ HasLayer(lastOp.before.hist, lastOp.before.idx)) =>
    LET b == lastOp.before
        i == b.idx
        label == POSE_INSTRUCTIONS[b.pose + 1]
        old == b.hist[i + 1]
        new == outfitHistory[i + 2]
    IN /\ Len(outfitHistory) = i + 2
       /\ \A k \in 1..(i + 1) : outfitHistory[k] = b.hist[k]
       /\ new.garment = old.garment
       /\ PoseHas(new.poseImages, label)
       /\ PoseGet(new.poseImages, label) = lastOp.call.id
       /\ \A k \in 1..Len(old.poseImages) :
            old.poseImages[k].label # label =>
              /\ PoseHas(new.poseImages, old.poseImages[k].label)
              /\ PoseGet(new.poseImages, old.poseImages[k].label) = old.poseImages[k].url
       /\ \A k \in 1..Len(new.poseImages) :
            new.poseImages[k].label # label => PoseHas(old.poseImages, new.poseImages[k].label)
       /\ currentOutfitIndex = i + 1

\* C13's case: an edit of a garment layer that holds two poses, issued while
\* the second pose was shown
C13_Witness ==
  /\ lastOp.name = "resolve"
  /\ lastOp.call.kind = "edit"
  /\ lastOp.paired
  /\ HasLayer(lastOp.before.hist, lastOp.before.idx)
  /\ lastOp.before.hist[lastOp.before.idx + 1].garment # NullGarment
  /\ Len(lastOp.before.hist[lastOp.before.idx + 1].poseImages) = 2
  /\ lastOp.before.pose = 1
  /\ Len(outfitHistory) = lastOp.before.idx + 2

\* the step just taken is a change-background whose gateway call succeeded
BackgroundChanged ==
  /\ lastOp.name = "resolve"
  /\ lastOp.result = "ok"
  /\ lastOp.call.kind = "background"

\* C14: the background context changes only by model finalization (to the
\* studio preset), a successful change-background (to the raw, unwrapped
\* prompt), load and reset: a failed change-background, and any edit,
\* apply-garment, change-pose, regenerate, undo or redo leave it unchanged.
C14_BackgroundOnlyByItsWriters ==
  /\ lastOp.name = "handleModelFinalized" => currentBackground = STUDIO_PROMPT
  /\ lastOp.name = "handleConfirmStartOver" => currentBackground = ""
  /\ BackgroundChanged =>
       /\ currentBackground = lastOp.call.rawPrompt
       /\ currentBackground \in BackgroundPromptInputs
  /\ (/\ lastOp.name \notin {"mount", "handleModelFinalized",
                              "handleConfirmStartOver", "handleLoadOutfit"}
      /\ ~BackgroundChanged) =>
       currentBackground = lastOp.from.bg

\* C14's case: a change-background succeeded on a session whose background
\* was the studio preset
C14_Witness ==
  /\ BackgroundChanged
  /\ lastOp.from.bg = STUDIO_PROMPT
  /\ currentBackground # STUDIO_PROMPT
  /\ lastAction.type = "edit"
  /\ lastAction.prompt # <<currentBackground>>

\* C15: regenerate is a no-op (no gateway call, no state change) whenever no
\* LastAction is recorded, a generation is in flight, or the index is 0.
C15_RegenerateNoOp ==
  LET f == lastOp.from
  IN (/\ lastOp.name = "handleRegenerate"
      /\ (f.lastAction = NullAction \/ f.loading \/ f.idx = 0)) =>
       /\ EngineSame(f)
       /\ calls = f.calls
       /\ lastOp.result = "noop"

\* C15's case: regenerate at the base layer with an action recorded and
\* nothing in flight
C15_Witness ==
  /\ lastOp.name = "handleRegenerate"
  /\ lastOp.result = "noop"
  /\ lastOp.from.idx = 0
  /\ lastOp.from.lastAction # NullAction
  /\ ~lastOp.from.loading
  /\ Len(outfitHistory) > 0

\* the step just taken is handleRegenerate issuing its call for an action of `type`
RegenerateIssued(type) ==
  /\ lastOp.name = "handleRegenerate"
  /\ lastOp.result = "issued"
  /\ lastOp.call.action.type = type

\* the step just taken is the success of a regenerate of an action of `type`,
\* directly after handleRegenerate issued it
RegenerateSucceeded(type) ==
  /\ Continued("resolve", "regenerate")
  /\ lastOp.result = "ok"
  /\ lastOp.call.action.type = type

\* C16: regenerate with a LastAction of type try-on at index i > 0 sends the
\* gateway a base image taken from layer i-1 and, on success, replaces layer
\* i's poseImages with exactly one entry, keyed by the current pose label.
C16_RegenerateTryOn ==
  /\ RegenerateIssued("try-on") =>
       LET f == lastOp.from
       IN /\ f.idx > 0
          /\ lastOp.call.base = FirstValue(f.hist[f.idx].poseImages)
          /\ lastOp.call.action = f.lastAction
          /\ lastOp.call.background = f.bg
  /\ RegenerateSucceeded("try-on") =>
       LET b == lastOp.before
       IN outfitHistory[b.idx + 1].poseImages =
            <<[label |-> POSE_INSTRUCTIONS[b.pose + 1], url |-> lastOp.call.id]>>

\* C16's case: the layer held two poses before, and its own first image is
\* not the one that was sent
C16_Witness ==
  /\ RegenerateSucceeded("try-on")
  /\ Len(lastOp.before.hist[lastOp.before.idx + 1].poseImages) = 2
  /\ lastOp.call.base # FirstValue(lastOp.before.hist[lastOp.before.idx + 1].poseImages)
  /\ Len(outfitHistory[currentOutfitIndex + 1].poseImages) = 1

\* the pose entries of `new` are those of `old` but for the one under `label`,
\* which is url
OnlyLabelChanged(old, new, label, url) ==
  /\ PoseHas(new, label)
  /\ PoseGet(new, label) = url
  /\ \A k \in 1..Len(old) :
       old[k].label # label =>
         PoseHas(new, old[k].label) /\ PoseGet(new, old[k].label) = old[k].url
  /\ \A k \in 1..Len(new) : new[k].label # label => PoseHas(old, new[k].label)

\* C17: regenerate with a LastAction of type pose re-invokes pose-variation
\* with the stored base image and instruction and on success changes only the
\* entry under the stored pose label of the active layer; with a LastAction
\* of type edit it re-invokes edit with the stored base image and prompt and
\* on success changes only the entry under the pose label that was current
\* when regenerate was invoked.  All other pose entries are untouched.
C17_RegeneratePoseOrEdit ==
  /\ RegenerateIssued("pose") =>
       /\ lastOp.call.base = lastOp.from.lastAction.baseImage
       /\ lastOp.call.action.poseInstruction = lastOp.from.lastAction.poseInstruction
       /\ lastOp.call.background = lastOp.from.bg
  /\ RegenerateIssued("edit") =>
       /\ lastOp.call.base = lastOp.from.lastAction.baseImage
       /\ lastOp.call.action.prompt = lastOp.from.lastAction.prompt
  /\ RegenerateSucceeded("pose") =>
       LET b == lastOp.before
       IN OnlyLabelChanged(b.hist[b.idx + 1].poseImages,
                           outfitHistory[b.idx + 1].poseImages,
                           b.lastAction.poseInstruction, lastOp.call.id)
  /\ RegenerateSucceeded("edit") =>
       LET b == lastOp.before
       IN OnlyLabelChanged(b.hist[b.idx + 1].poseImages,
                           outfitHistory[b.idx + 1].poseImages,
                           POSE_INSTRUCTIONS[b.pose + 1], lastOp.call.id)

\* C17's case: a pose was regenerated while another pose was shown, in a
\* layer that holds both
C17_Witness ==
  /\ RegenerateSucceeded("pose")
  /\ lastOp.before.lastAction.poseInstruction # POSE_INSTRUCTIONS[lastOp.before.pose + 1]
  /\ Len(outfitHistory[currentOutfitIndex + 1].poseImages) = 2
  /\ PoseGet(outfitHistory[currentOutfitIndex + 1].poseImages,
             lastOp.before.lastAction.poseInstruction) = lastOp.call.id

\* C18: a failed regenerate leaves the history unchanged and surfaces the
\* error, and neither a failed nor a successful regenerate changes
\* LastAction, so that regenerate can be repeated with the same action.
C18_RegenerateKeepsLastAction ==
  LET f == lastOp.from
  IN /\ (lastOp.name = "reject" /\ lastOp.call.kind = "regenerate") =>
          /\ outfitHistory = f.hist
          /\ error = "Failed to regenerate"
          /\ lastAction = f.lastAction
     /\ (lastOp.name = "handleRegenerate" /\ lastOp.result = "failed") =>
          /\ outfitHistory = f.hist
          /\ error = "Failed to regenerate"
          /\ lastAction = f.lastAction
     /\ (lastOp.name = "resolve" /\ lastOp.call.kind = "regenerate") =>
          lastAction = f.lastAction
     /\ (lastOp.name = "handleRegenerate" /\ lastOp.result = "issued") =>
          lastAction = f.lastAction
     /\ (Continued("resolve", "regenerate") \/ Continued("reject", "regenerate")) =>
          /\ lastAction = lastOp.call.action
          /\ lastAction = lastOp.before.lastAction
          /\ lastOp.result \in {"ok", "failed"} =>
               ~RegenerateIgnored(lastAction, isLoading, currentOutfitIndex)

\* C18's case: a regenerate failed and the same action can be regenerated again
C18_Witness ==
  /\ Continued("reject", "regenerate")
  /\ error = "Failed to regenerate"
  /\ lastAction # NullAction
  /\ outfitHistory = lastOp.before.hist
  /\ currentOutfitIndex > 0

\* C19: a successful regenerate changes only the poseImages of the layer at
\* the index of its invocation: the history length, the index, every other
\* layer and every layer's garment are unchanged, also when undo or redo
\* moved the index after LastAction was recorded.
C19_RegenerateTargetsCurrentIndex ==
  (Continued("resolve", "regenerate") /\ lastOp.result = "ok") =>
    LET b == lastOp.before
    IN /\ Len(outfitHistory) = Len(b.hist)
       /\ currentOutfitIndex = b.idx
       /\ \A k \in 1..Len(b.hist) :
            /\ outfitHistory[k].garment = b.hist[k].garment
            /\ k # b.idx + 1 => outfitHistory[k] = b.hist[k]
       /\ outfitHistory[b.idx + 1].poseImages # b.hist[b.idx + 1].poseImages

\* C19's case: the try-on that was regenerated is not the one that made the
\* layer at the index, which lies below the newest layer
C19_Witness ==
  /\ Continued("resolve", "regenerate")
  /\ lastOp.result = "ok"
  /\ lastAction.type = "try-on"
  /\ outfitHistory[currentOutfitIndex + 1].garment # lastAction.garmentInfo
  /\ currentOutfitIndex + 1 < Len(outfitHistory)

\* the record r holds no transient garment reference and no creation that is
\* not an image
DurableRecord(r) ==
  /\ \A k \in 1..Len(r.outfitHistory) :
       \/ r.outfitHistory[k].garment = NullGarment
       \/ ~StartsWith(r.outfitHistory[k].garment.url, "blob:")
  /\ \A k \in 1..Len(r.recentCreations) : r.recentCreations[k].type = "image"

\* the record under the key was written by the save effect that just ran
RecordWritten ==
  /\ lastOp.name = "save effect"
  /\ storage.present
  /\ storage \notin StoredInputs

\* C20: every record written to durable storage holds no layer whose garment
\* url is a transient blob reference (such a layer is stored with garment
\* null and its poseImages kept) and no creation of non-image type; saving
\* does not alter the history and the creation log in memory.
C20_RecordIsDurable ==
  /\ storage.present => DurableRecord(storage)
  /\ lastOp.name = "save effect" =>
       /\ outfitHistory = lastOp.from.hist
       /\ recentCreations = lastOp.from.creations
  /\ RecordWritten =>
       /\ Len(storage.outfitHistory) = Len(outfitHistory)
       /\ \A k \in 1..Len(outfitHistory) :
            LET layer == outfitHistory[k]
                stored == storage.outfitHistory[k]
            IN /\ stored.poseImages = layer.poseImages
               /\ stored.garment =
                    IF layer.garment # NullGarment /\ layer.garment.url[1] = "blob:"
                    THEN NullGarment
                    ELSE layer.garment
       /\ \A k \in 1..Len(storage.recentCreations) :
            \E j \in 1..Len(recentCreations) :
              storage.recentCreations[k] = recentCreations[j]

\* C20's case: a record was written of a history with a layer of a
\* blob-referenced garment below a catalog garment's layer, and of a log
\* that holds a video before an image
C20_Witness ==
  /\ RecordWritten
  /\ Len(outfitHistory) = 3
  /\ outfitHistory[2].garment = CustomGarment
  /\ storage.outfitHistory[2].garment = NullGarment
  /\ Len(storage.outfitHistory[2].poseImages) = 2
  /\ storage.outfitHistory[3].garment = CatalogGarment
  /\ Len(recentCreations) = 2
  /\ recentCreations[1].type = "video"
  /\ Len(storage.recentCreations) = 1

\* C21: on each save the persisted creation list is the first of [all image
\* creations, the newest 5, the newest 1, none], in that order, whose write
\* storage accepts, together with the full sanitized history, the index and
\* the background.  If all four writes are rejected nothing is written: the
\* record stored before is left as it was, no error is surfaced and the
\* state in memory is unchanged.
C21_FallbackCascade ==
  lastOp.name = "save effect" =>
    LET f == lastOp.from
        imgs == SelectSeq(recentCreations, LAMBDA c : c.type = "image")
        tries == << imgs, SubSeq(imgs, 1, Min(5, Len(imgs))),
                    SubSeq(imgs, 1, Min(1, Len(imgs))), <<>> >>
        fits == {k \in 1..4 : SumPoseImages(outfitHistory) + Len(tries[k]) <= quota}
    IN /\ EngineSame(f)
       /\ IF (imgs = <<>> /\ outfitHistory = <<>>) \/ fits = {}
          THEN storage = f.stored /\ hasSavedOutfit = f.flag
          ELSE LET first == CHOOSE k \in fits : \A j \in fits : k <= j
               IN /\ storage.present /\ storage.parsable
                  /\ storage.recentCreations = tries[first]
                  /\ storage.outfitHistory = SafeOutfitHistory(outfitHistory)
                  /\ storage.currentOutfitIndex = currentOutfitIndex
                  /\ storage.currentBackground = currentBackground
                  /\ hasSavedOutfit

\* C21's case: the write of all six image creations was rejected and the
\* write of the newest five accepted
C21_Witness ==
  /\ lastOp.name = "save effect"
  /\ Len(recentCreations) = 6
  /\ \A k \in 1..6 : recentCreations[k].type = "image"
  /\ Len(outfitHistory) > 0
  /\ SumPoseImages(outfitHistory) + 6 > quota
  /\ storage.present
  /\ storage.recentCreations = SubSeq(recentCreations, 1, 5)

\* the case of C21 in which every write is rejected, over a record stored before
C21_NothingWritten ==
  /\ lastOp.name = "save effect"
  /\ Len(outfitHistory) > 0
  /\ SumPoseImages(outfitHistory) > quota
  /\ storage = EarlierSession

\* the record r is one that load must refuse
Malformed(r) ==
  \/ ~r.parsable
  \/ ~r.hasHistory
  \/ Len(r.outfitHistory) = 0
  \/ Len(r.outfitHistory[1].poseImages) = 0

LoadSucceeded ==
  /\ lastOp.name = "handleLoadOutfit"
  /\ lastOp.result = "ok"

\* C23: for every stored record, either load fails, or the adopted state
\* has 0 <= currentOutfitIndex < length(outfitHistory) and a first layer
\* whose garment is null.
C23_LoadValidates ==
  LoadSucceeded =>
    /\ 0 <= currentOutfitIndex
    /\ currentOutfitIndex < Len(outfitHistory)
    /\ outfitHistory[1].garment = NullGarment

\* C24: loading a record with no creations field of the current shape but a
\* legacy flat list of URLs yields one creation per URL, each of type image,
\* with pairwise distinct synthesized ids, in the original order; when the
\* field of the current shape is present it is used and the legacy list
\* ignored.
C24_LegacyMigration ==
  LET r == lastOp.from.stored
  IN /\ (LoadSucceeded /\ ~r.hasCreations /\ r.hasLegacy) =>
          /\ Len(recentCreations) = Len(r.recentImages)
          /\ \A k \in 1..Len(recentCreations) :
               /\ recentCreations[k].url = r.recentImages[k]
               /\ recentCreations[k].type = "image"
          /\ \A j, k \in 1..Len(recentCreations) :
               j # k => recentCreations[j].id # recentCreations[k].id
     /\ (LoadSucceeded /\ r.hasCreations) =>
          recentCreations = r.recentCreations

\* C24's case: a legacy list in which one URL occurs twice
C24_Witness ==
  /\ LoadSucceeded
  /\ ~lastOp.from.stored.hasCreations
  /\ lastOp.from.stored.hasLegacy
  /\ Len(recentCreations) = 3
  /\ recentCreations[1].url = recentCreations[3].url
  /\ Len(storage.recentCreations) = 3

\* the wardrobe items with the id of g
ItemsOf(g) == {k \in 1..Len(wardrobe) : wardrobe[k].id = g.id}

\* C25: after a successful load every garment of a restored layer whose id
\* has the custom prefix is in the wardrobe exactly once, garments without
\* the prefix are not added, and the items that were there keep their place.
C25_WardrobeReconciled ==
  LoadSucceeded =>
    LET before == lastOp.from.wardrobe
    IN /\ Len(before) <= Len(wardrobe)
       /\ SubSeq(wardrobe, 1, Len(before)) = before
       /\ \A k \in (Len(before) + 1)..Len(wardrobe) : wardrobe[k].id[1] = "custom-"
       /\ \A k \in 1..Len(outfitHistory) :
            LET g == outfitHistory[k].garment
            IN (g # NullGarment /\ g.id[1] = "custom-") => Cardinality(ItemsOf(g)) = 1

\* the log is `before` with an image creation of url put in front, cut to
\* the newest MaxCreations
PutInFront(before, url) ==
  /\ Len(recentCreations) = Min(MaxCreations, Len(before) + 1)
  /\ recentCreations[1].url = url
  /\ recentCreations[1].type = "image"
  /\ \A k \in 2..Len(recentCreations) : recentCreations[k] = before[k - 1]

\* C26: the creation log never holds more than 12 entries and is
\* most-recent-first: every successful gateway result (model finalization,
\* try-on, pose, edit, background, regenerate) is put in front, the oldest
\* beyond 12 dropped; undo, redo, history truncation and failed operations
\* never remove or reorder entries.
C26_CreationLog ==
  LET f == lastOp.from
  IN /\ Len(recentCreations) <= 12
     /\ (lastOp.name = "resolve" /\ lastOp.result = "ok") =>
          PutInFront(f.creations, lastOp.call.id)
     /\ lastOp.name = "handleModelFinalized" =>
          PutInFront(f.creations, modelImageUrl)
     /\ (/\ lastOp.name \notin {"mount", "handleModelFinalized",
                                 "handleConfirmStartOver", "handleLoadOutfit",
                                 "save effect"}
         /\ ~(lastOp.name = "resolve" /\ lastOp.result = "ok")) =>
          recentCreations = f.creations

\* C26's case: a result was put in front of a full log, in a step that cut
\* the history
C26_Witness ==
  /\ lastOp.name = "resolve"
  /\ lastOp.result = "ok"
  /\ Len(lastOp.from.creations) = 12
  /\ Len(recentCreations) = 12
  /\ recentCreations[1].url = lastOp.call.id
  /\ recentCreations[12] = lastOp.from.creations[11]
  /\ Len(outfitHistory) <= Len(lastOp.from.hist)

\* C27: in every reachable state a layer has a null garment if and only if
\* it is layer 0.
C27_NullGarmentIffBase ==
  \A k \in 1..Len(outfitHistory) :
    (outfitHistory[k].garment = NullGarment) <=> (k = 1)

\* C28: every layer of the history has at least one entry in poseImages in
\* every reachable state, so that a displayed image can be derived from the
\* active layer.
C28_EveryLayerHasAnImage ==
  /\ \A k \in 1..Len(outfitHistory) : Len(outfitHistory[k].poseImages) >= 1
  /\ HasLayer(outfitHistory, currentOutfitIndex) => displayImageUrl # NoImage

\* C28's case: the active layer, a garment's, holds one image, and not for
\* the pose that is shown: the image displayed is that one
C28_Witness ==
  /\ currentOutfitIndex > 0
  /\ HasLayer(outfitHistory, currentOutfitIndex)
  /\ Len(outfitHistory[currentOutfitIndex + 1].poseImages) = 1
  /\ ~PoseHas(outfitHistory[currentOutfitIndex + 1].poseImages,
              POSE_INSTRUCTIONS[currentPoseIndex + 1])
  /\ displayImageUrl = outfitHistory[currentOutfitIndex + 1].poseImages[1].url

\* C30: once the gateway call of an operation resolves or rejects, the
\* in-flight flag is cleared and further operations are possible again: the
\* engine is back in Ready.
C30_BackToReady ==
  lastOp.name \in {"resolve", "reject"} => ~isLoading /\ ~crashed

\* the step just taken is the success of an apply-garment that was issued at
\* index 1 of a history of length 5, with a garment that is not the next layer's
AppliedAtOneOfFive ==
  /\ Continued("resolve", "try-on")
  /\ lastOp.result = "ok"
  /\ Len(lastOp.before.hist) = 5
  /\ lastOp.before.idx = 1
  /\ lastOp.garment.id # lastOp.before.hist[3].garment.id

\* C29, as the code has it: given a history of length 5 whose index was moved
\* from 4 to 1, a successful apply-garment with a genuinely new garment
\* yields a history of length 3, the old layers 0..1 and the new layer; the
\* old layers at 2-4 are discarded and not retained as a redo branch.
C29_ApplyAtOneOfFive ==
  AppliedAtOneOfFive =>
    LET b == lastOp.before
    IN /\ Len(outfitHistory) = 3
       /\ outfitHistory[1] = b.hist[1]
       /\ outfitHistory[2] = b.hist[2]
       /\ outfitHistory[3].garment = lastOp.garment
       /\ \A k \in 3..5 : \A j \in 1..Len(outfitHistory) : outfitHistory[j] # b.hist[k]
       /\ currentOutfitIndex = 2
       /\ ~CanRedo(outfitHistory, currentOutfitIndex)

\* C29's case: the garment is in no layer of the old history
C29_Witness ==
  /\ AppliedAtOneOfFive
  /\ \A k \in 2..5 : lastOp.before.hist[k].garment.id # lastOp.garment.id
  /\ Len(outfitHistory) = 3
  /\ Len(wardrobe) = Len(lastOp.before.wardrobe) + 1

\* C29 as stated: the resulting history has length 5, the old layers at
\* indices 2-4 discarded.
C29_AsStated ==
  AppliedAtOneOfFive =>
    /\ Len(outfitHistory) = 5
    /\ \A k \in 3..5 : \A j \in 1..Len(outfitHistory) :
         outfitHistory[j] # lastOp.before.hist[k]

\* C31 (as stated): undo and redo are never blocked by a generation in flight:
\* while one is loading, the redo that the history allows is on offer, and a
\* navigation invoked then moves the index as when idle without cancelling
\* the call.
C31_AsStated ==
  LET f == lastOp.from
  IN /\ (~StartScreenShown /\ isLoading /\ canRedo) => ~RedoDisabled
     /\ (lastOp.name \in {"handleUndo", "handleRedo"} /\ f.waiting # {}) =>
          /\ pending = f.waiting
          /\ calls = f.calls

\* C31: handleUndo and handleRedo have no in-flight guard: invoked while a
\* gateway call is outstanding they move the index exactly as when idle (undo
\* to i-1 iff i > 0, redo to i+1 iff i < length-1) and the call stays
\* outstanding, the loading flag as it was; but the Canvas offers redo only
\* while nothing is loading, so no redo runs from a loading state.
C31_NavigationInFlight ==
  LET f == lastOp.from
  IN /\ (lastOp.name \in {"handleUndo", "handleRedo"} /\ f.waiting # {}) =>
          /\ pending = f.waiting
          /\ isLoading = f.loading
          /\ calls = f.calls
          /\ lastOp.name = "handleUndo" =>
               currentOutfitIndex = (IF f.idx > 0 THEN f.idx - 1 ELSE f.idx)
          /\ lastOp.name = "handleRedo" =>
               currentOutfitIndex =
                 (IF f.idx < Len(f.hist) - 1 THEN f.idx + 1 ELSE f.idx)
     /\ lastOp.name = "handleRedo" => ~f.loading

\* C31's case: an undo that moved while the generation it did not wait for
\* was still loading
C31_Witness ==
  /\ lastOp.name = "handleUndo"
  /\ lastOp.result = "moved"
  /\ lastOp.from.loading
  /\ lastOp.from.waiting # {}
  /\ pending = lastOp.from.waiting

\* C32: no sequence of operations and gateway outcomes reaches an unhandled
\* failure: no state update ever reads a layer that does not exist, so the
\* component tree is never lost to an updater that threw.
C32_NoUnhandledFailure == ~crashed

\* the save effect stores the session `f` in full under quota q
StoredInFull(f, q) ==
  /\ Len(f.hist) > 0 \/ ImagesOnly(f.creations) # <<>>
  /\ TrySave(SafeOutfitHistory(f.hist), ImagesOnly(f.creations), q)

\* the record under the key is the sanitized form of the session `f`
StoredIsSanitized(f) ==
  /\ storage.present
  /\ storage.outfitHistory =
       [k \in 1..Len(f.hist) |->
          IF f.hist[k].garment # NullGarment
             /\ StartsWith(f.hist[k].garment.url, "blob:")
          THEN [garment |-> NullGarment, poseImages |-> f.hist[k].poseImages]
          ELSE f.hist[k]]
  /\ storage.hasIndex
  /\ storage.currentOutfitIndex = f.idx
  /\ storage.hasCreations
  /\ storage.recentCreations = ImagesOnly(f.creations)
  /\ storage.currentBackground = f.bg

\* C33: after a state change that storage accepts in full, the stored record
\* is the sanitized current state (blob-referenced garments nulled, image
\* creations only); and loading that record on the next mount restores the
\* same history with those garments nulled, the same index, the image
\* creations in the same order and the same background, LastAction null.
C33_RoundTrip ==
  LET f == lastOp.from
      b == lastOp.before
  IN /\ (lastOp.name = "save effect" /\ StoredInFull(f, quota)) =>
          StoredIsSanitized(f)
     /\ (lastOp.name = "handleLoadOutfit" /\ lastOp.paired
           /\ StoredInFull(b, quota) /\ Len(b.hist) > 0) =>
          /\ lastOp.result = "ok"
          /\ outfitHistory = f.stored.outfitHistory
          /\ StoredIsSanitized(b)
          /\ currentOutfitIndex = b.idx
          /\ recentCreations = ImagesOnly(b.creations)
          /\ currentBackground = b.bg
          /\ lastAction = NullAction

\* C33's case: a session with a blob-referenced garment and a video in its
\* log was saved in full and loaded again: the garment comes back null, the
\* video does not come back
C33_Witness ==
  LET b == lastOp.before
  IN /\ LoadSucceeded
     /\ lastOp.paired
     /\ StoredInFull(b, quota)
     /\ \E k \in 1..Len(b.hist) :
          b.hist[k].garment = CustomGarment /\ outfitHistory[k].garment = NullGarment
     /\ Len(recentCreations) > 1
     /\ Len(recentCreations) < Len(b.creations)
     /\ b.idx > 0

\* C34: every image reference a gateway operation returns successfully
\* carries the watermark, whatever the outcome of the watermarking step.
C34_SuccessIsWatermarked ==
  returned.status = "resolved" => returned.url.watermark

\* C35: getDisplayMode returns the first entry of display_override that is
\* supported; if there is none (or the list is empty or missing) the display
\* value when that is supported; otherwise 'browser'.  The result is always a
\* supported mode or 'browser'.
C35_DisplayMode ==
  displayMode # "" =>
    LET ov   == IF manifest.hasOverride THEN manifest.display_override ELSE <<>>
        hits == {i \in 1..Len(ov) : ov[i] \in supportedModes}
    IN /\ IF hits # {}
          THEN displayMode = ov[CHOOSE i \in hits : \A j \in hits : i <= j]
          ELSE IF manifest.display # "" /\ manifest.display \in supportedModes
          THEN displayMode = manifest.display
          ELSE displayMode = "browser"
       /\ displayMode \in supportedModes \cup {"browser"}

\* C35's case: the first override is not supported, the second is, and the
\* display value is supported too but is not the one returned
C35_Witness ==
  /\ displayMode # ""
  /\ Len(manifest.display_override) = 2
  /\ manifest.display_override[1] \notin supportedModes
  /\ manifest.display_override[2] \in supportedModes
  /\ manifest.display \in supportedModes
  /\ manifest.display # manifest.display_override[2]
  /\ displayMode = manifest.display_override[2]

\* C36: when a slow-path apply-garment completes successfully, the active
\* layer is the newly appended layer and it is the last layer of the history,
\* also when undo or redo ran while the gateway call was in flight (stated
\* for runs without a reset, whose late completions C1 and C5 are about).
C36_NewLayerIsActive ==
  (/\ lastOp.name = "resolve"
   /\ lastOp.result = "ok"
   /\ lastOp.call.kind = "try-on"
   /\ ~sinceReset) =>
     /\ currentOutfitIndex = Len(outfitHistory) - 1
     /\ HasLayer(outfitHistory, currentOutfitIndex)
     /\ outfitHistory[currentOutfitIndex + 1].garment = lastOp.call.garmentInfo
     /\ FirstValue(outfitHistory[currentOutfitIndex + 1].poseImages) = lastOp.call.id

\* C37: whenever regenerate issues a try-on call, the garment stored in
\* LastAction is the garment of the active layer, so after regeneration a
\* layer's images still depict the garment recorded in its garment field.
C37_RegenerateSameGarment ==
  RegenerateIssued("try-on") =>
    /\ HasLayer(outfitHistory, currentOutfitIndex)
    /\ outfitHistory[currentOutfitIndex + 1].garment # NullGarment
    /\ lastAction.garmentInfo.id = outfitHistory[currentOutfitIndex + 1].garment.id

\* C38: the wardrobe catalog never holds two items with the same id.
C38_WardrobeIdsDistinct ==
  \A j, k \in 1..Len(wardrobe) : wardrobe[j].id = wardrobe[k].id => j = k

C40_EmptySessionWritesNothing ==
  LET f == lastOp.from
  IN (/\ lastOp.name = "save effect"
      /\ f.hist = <<>>
      /\ \A k \in 1..Len(f.creations) : f.creations[k].type # "image") =>
       /\ storage = f.stored
       /\ hasSavedOutfit = f.flag

\* C40's case: the effect ran on an empty history and a log without images,
\* with an earlier session under the key and room to write
C40_Witness ==
  LET f == lastOp.from
  IN /\ lastOp.name = "save effect"
     /\ f.hist = <<>>
     /\ \A k \in 1..Len(f.creations) : f.creations[k].type # "image"
     /\ f.stored = EarlierSession
     /\ storage = EarlierSession
     /\ hasSavedOutfit
     /\ quota = LargeQuota

====
